---- MODULE Spec2Model ----
(***************************************************************************)
(* Relation-graph resolution and visibility propagation of the recipe      *)
(* admin API (web/lib/api/adminRecipes.ts), its PATCH route and read-time  *)
(* navigation (web/lib/recipes.ts).  Strings are TLA+ strings; a character *)
(* is a string of length one, read with SubSeq.  The characters are those  *)
(* a TLA+ string can hold, U+0000 to U+00FF: the white space, the line     *)
(* terminators and the letters with a lower case are those of that range.  *)
(***************************************************************************)
EXTENDS Integers, Sequences, FiniteSets, TLC

(***************************************************************************)
(* Characters and the JavaScript string primitives the code uses.          *)
(***************************************************************************)
LowerChars == "abcdefghijklmnopqrstuvwxyz"
UpperChars == "ABCDEFGHIJKLMNOPQRSTUVWXYZ"
DigitChars == "0123456789"

\* The letters beyond A..Z that toLowerCase changes, and what it changes them to.
AccentedUpperChars == "ÀÁÂÃÄÅÆÇÈÉÊËÌÍÎÏÐÑÒÓÔÕÖØÙÚÛÜÝÞ"
AccentedLowerChars == "àáâãäåæçèéêëìíîïðñòóôõöøùúûüýþ"

\* White space: space, tab, line feed, carriage return, form feed, vertical tab
\* (U+000B) and no-break space (U+00A0).
WhiteSpaceChars == " \t\n\r\f "

\* value[i] as a one-character string.
CharAt(s, i) == SubSeq(s, i, i)

\* The set of the characters of s.
CharSet(s) == {CharAt(s, i) : i \in 1..Len(s)}

LowerSet == CharSet(LowerChars)
UpperSet == CharSet(UpperChars)
DigitSet == CharSet(DigitChars)

\* \s of a regular expression and the characters String.prototype.trim strips.
WhiteSpaceSet == CharSet(WhiteSpaceChars)
IsSpaceChar(c) == c \in WhiteSpaceSet

\* A line terminator: the characters "." of a regular expression never matches.
IsLineTerminator(c) == c \in {"\n", "\r"}

\* \w of a regular expression.
IsWordChar(c) == c \in LowerSet \/ c \in UpperSet \/ c \in DigitSet \/ c = "_"

\* String.prototype.toLowerCase on each upper-case letter.
CasedUpperChars == UpperChars \o AccentedUpperChars
CasedLowerChars == LowerChars \o AccentedLowerChars
CasedUpperSet == CharSet(CasedUpperChars)
LowerOf == [c \in CasedUpperSet |->
               CharAt(CasedLowerChars,
                      CHOOSE i \in 1..Len(CasedUpperChars) : CharAt(CasedUpperChars, i) = c)]

LowerOfChar(c) == IF c \in CasedUpperSet THEN LowerOf[c] ELSE c

RECURSIVE toLowerCase(_)
toLowerCase(s) ==
    IF Len(s) = 0 THEN ""
    ELSE LowerOfChar(CharAt(s, 1)) \o toLowerCase(SubSeq(s, 2, Len(s)))

\* String.prototype.trim.
trim(s) ==
    LET keep == {i \in 1..Len(s) : ~IsSpaceChar(CharAt(s, i))}
    IN  IF keep = {} THEN ""
        ELSE SubSeq(s, CHOOSE i \in keep : \A j \in keep : i <= j,
                       CHOOSE i \in keep : \A j \in keep : j <= i)

\* String.prototype.startsWith.
startsWith(s, prefix) ==
    /\ Len(prefix) <= Len(s)
    /\ SubSeq(s, 1, Len(prefix)) = prefix

\* String.prototype.includes.
includes(s, part) ==
    \E i \in 1..(Len(s) - Len(part) + 1) : SubSeq(s, i, i + Len(part) - 1) = part

\* value.split(" ").filter(Boolean): the maximal runs of characters other than " ".
RECURSIVE splitTokens(_, _)
splitTokens(s, cur) ==
    IF Len(s) = 0 THEN (IF cur = "" THEN <<>> ELSE <<cur>>)
    ELSE IF CharAt(s, 1) = " "
         THEN (IF cur = "" THEN <<>> ELSE <<cur>>) \o splitTokens(SubSeq(s, 2, Len(s)), "")
         ELSE splitTokens(SubSeq(s, 2, Len(s)), cur \o CharAt(s, 1))

\* .replace(/[^a-z0-9]+/g, " "): every maximal run of other characters becomes one space.
RECURSIVE collapseNonAlnum(_, _)
collapseNonAlnum(s, inRun) ==
    IF Len(s) = 0 THEN ""
    ELSE IF CharAt(s, 1) \in LowerSet \/ CharAt(s, 1) \in DigitSet
         THEN CharAt(s, 1) \o collapseNonAlnum(SubSeq(s, 2, Len(s)), FALSE)
         ELSE (IF inRun THEN "" ELSE " ") \o collapseNonAlnum(SubSeq(s, 2, Len(s)), TRUE)

normalizeComparableText(value) == trim(collapseNonAlnum(toLowerCase(value), FALSE))

(***************************************************************************)
(* Title matcher.                                                          *)
(***************************************************************************)
ScoreExact == 120
ScoreTitlePrefix == 110
ScoreLabelPrefix == 95
ScoreContains == 85
ScoreTokensHigh == 78
ScoreTokensMid == 72
ScoreTokensLow == 68

\* The label tokens for which some title token is a prefix of it or it of a title token.
matchedTokens(labelTokens, titleTokens) ==
    Cardinality({i \in 1..Len(labelTokens) :
        \E j \in 1..Len(titleTokens) :
            \/ startsWith(titleTokens[j], labelTokens[i])
            \/ startsWith(labelTokens[i], titleTokens[j])})

\* A matcher whose two prefix tiers are exchanged.
scoreTitleMatchPrefixSwapped(labelNorm, titleNorm) ==
    IF labelNorm = "" \/ titleNorm = "" THEN 0
    ELSE IF titleNorm = labelNorm THEN ScoreExact
    ELSE IF startsWith(labelNorm, titleNorm) THEN ScoreTitlePrefix
    ELSE IF startsWith(titleNorm, labelNorm) THEN ScoreLabelPrefix
    ELSE IF includes(titleNorm, labelNorm) THEN ScoreContains
    ELSE LET labelTokens == splitTokens(labelNorm, "")
             titleTokens == splitTokens(titleNorm, "")
             matched == matchedTokens(labelTokens, titleTokens)
         IN  IF Len(labelTokens) = 0 \/ Len(titleTokens) = 0 THEN 0
             ELSE IF matched * 10 >= 9 * Len(labelTokens) THEN ScoreTokensHigh
             ELSE IF matched * 4 >= 3 * Len(labelTokens) THEN ScoreTokensMid
             ELSE IF matched * 5 >= 3 * Len(labelTokens) THEN ScoreTokensLow
             ELSE 0

\* A matcher whose highest token tier needs a ratio above 0.9.
scoreTitleMatchStrictRatio(labelNorm, titleNorm) ==
    IF labelNorm = "" \/ titleNorm = "" THEN 0
    ELSE IF titleNorm = labelNorm THEN ScoreExact
    ELSE IF startsWith(titleNorm, labelNorm) THEN ScoreTitlePrefix
    ELSE IF startsWith(labelNorm, titleNorm) THEN ScoreLabelPrefix
    ELSE IF includes(titleNorm, labelNorm) THEN ScoreContains
    ELSE LET labelTokens == splitTokens(labelNorm, "")
             titleTokens == splitTokens(titleNorm, "")
             matched == matchedTokens(labelTokens, titleTokens)
         IN  IF Len(labelTokens) = 0 \/ Len(titleTokens) = 0 THEN 0
             ELSE IF matched * 10 > 9 * Len(labelTokens) THEN ScoreTokensHigh
             ELSE IF matched * 4 >= 3 * Len(labelTokens) THEN ScoreTokensMid
             ELSE IF matched * 5 >= 3 * Len(labelTokens) THEN ScoreTokensLow
             ELSE 0

scoreTitleMatch(labelNorm, titleNorm) ==
    IF labelNorm = "" \/ titleNorm = "" THEN 0
    ELSE IF titleNorm = labelNorm THEN ScoreExact
    ELSE IF startsWith(titleNorm, labelNorm) THEN ScoreTitlePrefix
    ELSE IF startsWith(labelNorm, titleNorm) THEN ScoreLabelPrefix
    ELSE IF includes(titleNorm, labelNorm) THEN ScoreContains
    ELSE LET labelTokens == splitTokens(labelNorm, "")
             titleTokens == splitTokens(titleNorm, "")
             matched == matchedTokens(labelTokens, titleTokens)
         IN  IF Len(labelTokens) = 0 \/ Len(titleTokens) = 0 THEN 0
             \* ratio = matched / labelTokens.length against 0.9, 0.75 and 0.6
             ELSE IF matched * 10 >= 9 * Len(labelTokens) THEN ScoreTokensHigh
             ELSE IF matched * 4 >= 3 * Len(labelTokens) THEN ScoreTokensMid
             ELSE IF matched * 5 >= 3 * Len(labelTokens) THEN ScoreTokensLow
             ELSE 0

(***************************************************************************)
(* Reference extractor.  An optional string is <<>> (null, undefined or a  *)
(* value that is no string) or <<s>>.                                      *)
(***************************************************************************)
\* The length of the run of \s characters of s that starts at position from.
RECURSIVE spaceRun(_, _)
spaceRun(s, from) ==
    IF from <= Len(s) /\ IsSpaceChar(CharAt(s, from)) THEN 1 + spaceRun(s, from + 1) ELSE 0

\* The positions where /\bPTN\b\s+(.+)$/i matches: PTN in any letter case at a word
\* boundary, a run of white space, then a non-empty rest without a line terminator.
ptnMatchStarts(s) ==
    {i \in 1..(Len(s) - 3) :
        /\ toLowerCase(SubSeq(s, i, i + 2)) = "ptn"
        /\ (i = 1 \/ ~IsWordChar(CharAt(s, i - 1)))
        /\ LET run == spaceRun(s, i + 3)
               rest == SubSeq(s, i + 3 + run, Len(s))
           IN  /\ run >= 1
               /\ \/ /\ Len(rest) >= 1
                     /\ \A k \in 1..Len(rest) : ~IsLineTerminator(CharAt(rest, k))
                  \* the rest is empty: \s+ gives back its last character to (.+)
                  \/ /\ Len(rest) = 0
                     /\ run >= 2
                     /\ ~IsLineTerminator(CharAt(s, Len(s)))}

extractPtnReference(value) ==
    IF value = <<>> THEN <<>>
    ELSE LET s == value[1]
             starts == ptnMatchStarts(s)
         IN  IF starts = {} THEN <<>>
             ELSE LET i == CHOOSE a \in starts : \A b \in starts : a <= b
                      token == trim(SubSeq(s, i + 3 + spaceRun(s, i + 3), Len(s)))
                  IN  IF token = "" THEN <<>> ELSE <<token>>

\* seq with the members of more it does not hold yet appended (Set.add, insertion order).
RECURSIVE addAll(_, _)
addAll(seq, more) ==
    IF more = <<>> THEN seq
    ELSE addAll(IF \E k \in 1..Len(seq) : seq[k] = more[1] THEN seq ELSE Append(seq, more[1]),
                Tail(more))

\* A collection into a list, not a Set.
RECURSIVE collectPtnLabelsNoDedupe(_)
collectPtnLabelsNoDedupe(ingredients) ==
    IF ingredients = <<>> THEN <<>>
    ELSE LET n == Len(ingredients)
             last == ingredients[n]
         IN  collectPtnLabelsNoDedupe(SubSeq(ingredients, 1, n - 1))
                 \o extractPtnReference(last.item) \o extractPtnReference(last.text)

RECURSIVE collectPtnLabels(_)
collectPtnLabels(ingredients) ==
    IF ingredients = <<>> THEN <<>>
    ELSE LET n == Len(ingredients)
             last == ingredients[n]
         IN  addAll(collectPtnLabels(SubSeq(ingredients, 1, n - 1)),
                    extractPtnReference(last.item) \o extractPtnReference(last.text))

(***************************************************************************)
(* Relation graph and component expansion.                                 *)
(***************************************************************************)
EdgeThreshold == 72

\* A scan that keeps the last of the titles that share the highest score.
RECURSIVE bestTitleLastSeen(_, _, _, _)
bestTitleLastSeen(labelNorm, titles, from, best) ==
    IF from > Len(titles) THEN best
    ELSE LET score == scoreTitleMatch(labelNorm, titles[from].norm)
         IN  bestTitleLastSeen(labelNorm, titles, from + 1,
                       IF score >= best.score /\ score > 0
                       THEN [score |-> score, id |-> <<titles[from].id>>]
                       ELSE best)

\* The best (score, id) over titles[from..], starting from the best so far.
RECURSIVE bestTitle(_, _, _, _)
bestTitle(labelNorm, titles, from, best) ==
    IF from > Len(titles) THEN best
    ELSE LET score == scoreTitleMatch(labelNorm, titles[from].norm)
         IN  bestTitle(labelNorm, titles, from + 1,
                       IF score > best.score THEN [score |-> score, id |-> <<titles[from].id>>]
                       ELSE best)

\* A resolver whose threshold is the lowest token-overlap score.
resolveLabelTargetIdLowBar(label, titles) ==
    LET labelNorm == normalizeComparableText(label)
        best == bestTitle(labelNorm, titles, 1, [score |-> 0, id |-> <<>>])
    IN  IF labelNorm = "" THEN <<>>
        ELSE IF best.score >= ScoreTokensLow THEN best.id ELSE <<>>

resolveLabelTargetId(label, titles) ==
    LET labelNorm == normalizeComparableText(label)
        best == bestTitle(labelNorm, titles, 1, [score |-> 0, id |-> <<>>])
    IN  IF labelNorm = "" THEN <<>>
        ELSE IF best.score >= EdgeThreshold THEN best.id ELSE <<>>

titleIndex(rows) == [k \in 1..Len(rows) |-> [id |-> rows[k].id, norm |-> normalizeComparableText(rows[k].title)]]

rowIds(rows) == {rows[k].id : k \in 1..Len(rows)}

\* An edge recorded at its owner only.
RECURSIVE addLabelEdgesOneWay(_, _, _, _, _)
addLabelEdgesOneWay(adjacency, owner, labels, from, titles) ==
    IF from > Len(labels) THEN adjacency
    ELSE LET target == resolveLabelTargetId(labels[from], titles)
             targetId == target[1]
         IN  addLabelEdgesOneWay(
                 IF target = <<>> \/ targetId = "" \/ targetId = owner THEN adjacency
                 ELSE [adjacency EXCEPT ![owner] = addAll(@, <<targetId>>)],
                 owner, labels, from + 1, titles)

\* A builder that resolves only the first label of a row.
addLabelEdgesFirstLabel(adjacency, owner, labels, from, titles) ==
    IF from > Len(labels) \/ from > 1 THEN adjacency
    ELSE LET target == resolveLabelTargetId(labels[from], titles)
             targetId == target[1]
         IN  IF target = <<>> \/ targetId = "" \/ targetId = owner THEN adjacency
             ELSE LET one == [adjacency EXCEPT ![owner] = addAll(@, <<targetId>>)]
                  IN  [one EXCEPT ![targetId] = addAll(@, <<owner>>)]

\* adjacency after the labels[from..] of the row with id owner have been resolved.
RECURSIVE addLabelEdges(_, _, _, _, _)
addLabelEdges(adjacency, owner, labels, from, titles) ==
    IF from > Len(labels) THEN adjacency
    ELSE LET target == resolveLabelTargetId(labels[from], titles)
             targetId == target[1]
         IN  addLabelEdges(
                 \* !targetId: null or the empty string
                 IF target = <<>> \/ targetId = "" \/ targetId = owner THEN adjacency
                 ELSE LET one == [adjacency EXCEPT ![owner] = addAll(@, <<targetId>>)]
                      IN  [one EXCEPT ![targetId] = addAll(@, <<owner>>)],
                 owner, labels, from + 1, titles)

RECURSIVE buildAdjacencyFrom(_, _, _, _)
buildAdjacencyFrom(adjacency, rows, from, titles) ==
    IF from > Len(rows) THEN adjacency
    ELSE buildAdjacencyFrom(
             addLabelEdges(adjacency, rows[from].id, collectPtnLabels(rows[from].ingredients), 1, titles),
             rows, from + 1, titles)

\* The adjacency map of resolveRelatedRecipeIds: id -> neighbours in insertion order.
buildAdjacency(rows) ==
    buildAdjacencyFrom([id \in rowIds(rows) |-> <<>>], rows, 1, titleIndex(rows))

\* The seeds trimmed and deduplicated, the empty ones kept.
RECURSIVE uniqueTrimmedKeepEmpty(_)
uniqueTrimmedKeepEmpty(seedIds) ==
    IF seedIds = <<>> THEN <<>>
    ELSE LET n == Len(seedIds)
         IN  addAll(uniqueTrimmedKeepEmpty(SubSeq(seedIds, 1, n - 1)), <<trim(seedIds[n])>>)

\* [...new Set(seedIds.map((id) => id.trim()).filter(Boolean))]
RECURSIVE uniqueTrimmed(_)
uniqueTrimmed(seedIds) ==
    IF seedIds = <<>> THEN <<>>
    ELSE LET n == Len(seedIds)
             id == trim(seedIds[n])
         IN  addAll(uniqueTrimmed(SubSeq(seedIds, 1, n - 1)), IF id = "" THEN <<>> ELSE <<id>>)

\* A seeding that stops after the first seed.
seedQueueFirstOnly(adjacency, seeds, visited) ==
    IF seeds # <<>> /\ seeds[1] \in DOMAIN adjacency THEN addAll(visited, <<seeds[1]>>) ELSE visited

\* The seeds that are keys of the adjacency map, each once.
RECURSIVE seedQueue(_, _, _)
seedQueue(adjacency, seeds, visited) ==
    IF seeds = <<>> THEN visited
    ELSE seedQueue(adjacency, Tail(seeds),
                   IF seeds[1] \in DOMAIN adjacency THEN addAll(visited, <<seeds[1]>>) ELSE visited)

\* A traversal that stops at the seeds.
bfsLoopSeedsOnly(adjacency, queue, visited) == visited

\* A traversal that marks the neighbours of the seeds and never enqueues them.
RECURSIVE bfsLoopOneHop(_, _, _)
bfsLoopOneHop(adjacency, queue, visited) ==
    IF queue = <<>> THEN visited
    ELSE bfsLoopOneHop(adjacency, Tail(queue), addAll(visited, adjacency[Head(queue)]))

\* The while loop of the traversal: visited after the queue has run empty.
RECURSIVE bfsLoop(_, _, _)
bfsLoop(adjacency, queue, visited) ==
    IF queue = <<>> THEN visited
    ELSE LET current == Head(queue)
         IN  IF current = "" \/ current \notin DOMAIN adjacency
             THEN bfsLoop(adjacency, Tail(queue), visited)
             ELSE LET grown == addAll(visited, adjacency[current])
                  IN  bfsLoop(adjacency,
                              Tail(queue) \o SubSeq(grown, Len(visited) + 1, Len(grown)),
                              grown)

\* An iteration that enqueues every neighbour, visited or not.
bfsStepNoVisitedCheck(adjacency, queue, visited) ==
    LET current == Head(queue)
    IN  IF current = "" \/ current \notin DOMAIN adjacency
        THEN [queue |-> Tail(queue), visited |-> visited, pushed |-> <<>>]
        ELSE [queue |-> Tail(queue) \o adjacency[current],
              visited |-> addAll(visited, adjacency[current]),
              pushed |-> adjacency[current]]

\* One iteration of the while loop on a queue that is not empty: the queue and the
\* visited set after it, and the ids it pushed.
bfsStep(adjacency, queue, visited) ==
    LET current == Head(queue)
    IN  IF current = "" \/ current \notin DOMAIN adjacency
        THEN [queue |-> Tail(queue), visited |-> visited, pushed |-> <<>>]
        ELSE LET grown == addAll(visited, adjacency[current])
                 fresh == SubSeq(grown, Len(visited) + 1, Len(grown))
             IN  [queue |-> Tail(queue) \o fresh, visited |-> grown, pushed |-> fresh]

expandComponent(adjacency, uniqueSeeds) ==
    LET seeded == seedQueue(adjacency, uniqueSeeds, <<>>)
    IN  bfsLoop(adjacency, seeded, seeded)

\* resolveRelatedRecipeIds on the rows the relation-graph query returns.
resolveRelatedRecipeIds(seedIds, rows) ==
    LET uniqueSeeds == uniqueTrimmed(seedIds)
    IN  IF uniqueSeeds = <<>> THEN <<>>
        ELSE IF rows = <<>> THEN <<>>
        ELSE expandComponent(buildAdjacency(rows), uniqueSeeds)

(***************************************************************************)
(* Read-time navigation (web/lib/recipes.ts), with its own copies of the   *)
(* matcher and of the reference extractor.                                 *)
(***************************************************************************)
recipesNormalizeComparableText(value) == trim(collapseNonAlnum(toLowerCase(value), FALSE))

\* A copy of the matcher that has lost its containment tier.
recipesScoreTitleMatchNoContains(labelNorm, titleNorm) ==
    IF labelNorm = "" \/ titleNorm = "" THEN 0
    ELSE IF titleNorm = labelNorm THEN 120
    ELSE IF startsWith(titleNorm, labelNorm) THEN 110
    ELSE IF startsWith(labelNorm, titleNorm) THEN 95
    ELSE LET labelTokens == splitTokens(labelNorm, "")
             titleTokens == splitTokens(titleNorm, "")
             matched == matchedTokens(labelTokens, titleTokens)
         IN  IF Len(labelTokens) = 0 \/ Len(titleTokens) = 0 THEN 0
             ELSE IF matched * 10 >= 9 * Len(labelTokens) THEN 78
             ELSE IF matched * 4 >= 3 * Len(labelTokens) THEN 72
             ELSE IF matched * 5 >= 3 * Len(labelTokens) THEN 68
             ELSE 0

recipesScoreTitleMatch(labelNorm, titleNorm) ==
    IF labelNorm = "" \/ titleNorm = "" THEN 0
    ELSE IF titleNorm = labelNorm THEN 120
    ELSE IF startsWith(titleNorm, labelNorm) THEN 110
    ELSE IF startsWith(labelNorm, titleNorm) THEN 95
    ELSE IF includes(titleNorm, labelNorm) THEN 85
    ELSE LET labelTokens == splitTokens(labelNorm, "")
             titleTokens == splitTokens(titleNorm, "")
             matched == matchedTokens(labelTokens, titleTokens)
         IN  IF Len(labelTokens) = 0 \/ Len(titleTokens) = 0 THEN 0
             ELSE IF matched * 10 >= 9 * Len(labelTokens) THEN 78
             ELSE IF matched * 4 >= 3 * Len(labelTokens) THEN 72
             ELSE IF matched * 5 >= 3 * Len(labelTokens) THEN 68
             ELSE 0

recipesExtractPtnReference(value) ==
    IF value = <<>> THEN <<>>
    ELSE LET s == value[1]
             starts == ptnMatchStarts(s)
         IN  IF starts = {} THEN <<>>
             ELSE LET i == CHOOSE a \in starts : \A b \in starts : a <= b
                      token == trim(SubSeq(s, i + 3 + spaceRun(s, i + 3), Len(s)))
                  IN  IF token = "" THEN <<>> ELSE <<token>>

\* coalesce(visibility.<audience>, false) == true, for the audience "all" of either flag.
visibilityPredicate(audience, visibility) ==
    CASE audience = "public" -> visibility.public = <<TRUE>>
      [] audience = "enterprise" -> visibility.enterprise = <<TRUE>>
      [] audience = "all" -> visibility.public = <<TRUE>> \/ visibility.enterprise = <<TRUE>>

\* The rows the title query of findSubRecipeTargets returns: every recipe, or the
\* recipes of the audience.
RECURSIVE titleRows(_, _, _, _)
titleRows(docs, visibility, audience, includeAll) ==
    IF docs = <<>> THEN <<>>
    ELSE (IF includeAll \/ visibilityPredicate(audience, visibility[Head(docs).id])
          THEN <<[id |-> Head(docs).id, title |-> Head(docs).title,
                  pluNumber |-> Head(docs).pluNumber]>>
          ELSE <<>>) \o titleRows(Tail(docs), visibility, audience, includeAll)

normalizedRows(fetched) ==
    [k \in 1..Len(fetched) |->
        [id |-> fetched[k].id, title |-> fetched[k].title, pluNumber |-> fetched[k].pluNumber,
         norm |-> recipesNormalizeComparableText(fetched[k].title)]]

DirectThreshold == 72
FallbackThreshold == 60

\* best and bestScore after the rows[from..] have been scored.
RECURSIVE bestTarget(_, _, _, _)
bestTarget(labelNorm, normalized, from, best) ==
    IF from > Len(normalized) THEN best
    ELSE LET score == recipesScoreTitleMatch(labelNorm, normalized[from].norm)
         IN  bestTarget(labelNorm, normalized, from + 1,
                 IF score > best.score
                 THEN [score |-> score,
                       target |-> <<[id |-> normalized[from].id, title |-> normalized[from].title,
                                     pluNumber |-> normalized[from].pluNumber,
                                     directMatch |-> score >= DirectThreshold]>>]
                 ELSE best)

\* result[label] of findSubRecipeTargets: <<>> is null.
subRecipeTarget(label, normalized) ==
    LET labelNorm == recipesNormalizeComparableText(label)
        best == bestTarget(labelNorm, normalized, 1, [score |-> 0, target |-> <<>>])
    IN  IF labelNorm = "" THEN <<>>
        ELSE IF best.score >= FallbackThreshold THEN best.target ELSE <<>>

\* [...new Set(labels.map((x) => x.trim()).filter(Boolean))]
RECURSIVE uniqueLabels(_)
uniqueLabels(labels) ==
    IF labels = <<>> THEN <<>>
    ELSE LET n == Len(labels)
             label == trim(labels[n])
         IN  addAll(uniqueLabels(SubSeq(labels, 1, n - 1)), IF label = "" THEN <<>> ELSE <<label>>)

\* The key whose assignment to a plain object sets the prototype of the object.
ProtoKey == "__proto__"

\* findSubRecipeTargets over the rows its query returned: the own keys of the object it
\* returns, label -> target or null.  The assignment result[label] = ... with the
\* label __proto__ creates no key.
findSubRecipeTargets(labels, fetched) ==
    LET unique == uniqueLabels(labels)
    IN  [label \in {unique[k] : k \in 1..Len(unique)} \ {ProtoKey} |->
            subRecipeTarget(label, normalizedRows(fetched))]

\* The prototype of the object findSubRecipeTargets returns: Object.prototype, or what
\* the assignment with the label __proto__ has set: the target of that label, or null.
findSubRecipeTargetsPrototype(labels, fetched) ==
    LET unique == uniqueLabels(labels)
        target == subRecipeTarget(ProtoKey, normalizedRows(fetched))
    IN  IF \A k \in 1..Len(unique) : unique[k] # ProtoKey THEN [kind |-> "Object.prototype"]
        ELSE IF target = <<>> THEN [kind |-> "null"]
        ELSE [kind |-> "target", target |-> target[1]]

\* The properties every object inherits from Object.prototype, __proto__ apart, and the
\* properties of a target.
ObjectPrototypeKeys ==
    {"constructor", "toString", "toLocaleString", "valueOf", "hasOwnProperty", "isPrototypeOf",
     "propertyIsEnumerable", "__defineGetter__", "__defineSetter__", "__lookupGetter__",
     "__lookupSetter__"}
TargetKeys == {"id", "title", "pluNumber", "directMatch"}

\* subRecipeTargets[ptnLabel], the lookup the recipe page makes for a label: the value of
\* the own key, a target or null; else what the prototype chain gives: undefined under a
\* null prototype; for __proto__ the prototype itself; the property of a target set as
\* prototype; the member of Object.prototype of that name; undefined for any other name.
subRecipeTargetOf(result, prototype, label) ==
    IF label \in DOMAIN result
    THEN IF result[label] = <<>> THEN [kind |-> "null"]
         ELSE [kind |-> "target", target |-> result[label][1]]
    ELSE IF prototype.kind = "null" THEN [kind |-> "undefined"]
    ELSE IF label = ProtoKey THEN prototype
    ELSE IF prototype.kind = "target" /\ label \in TargetKeys
    THEN [kind |-> "property", name |-> label, value |-> <<prototype.target[label]>>]
    ELSE IF label \in ObjectPrototypeKeys THEN [kind |-> "inherited", name |-> label]
    ELSE [kind |-> "undefined"]

(***************************************************************************)
(* The content store, the write channels and setRecipesVisibility.         *)
(*                                                                         *)
(* A stored visibility flag is <<>> (absent), <<TRUE>> or <<FALSE>>.       *)
(* One action is the code one call runs between two awaits.                *)
(***************************************************************************)
VARIABLES
    env,        \* the credential slots of process.env that are populated
    writeClients, \* the sources of the clients getSanityWriteClients returns, in order
    rows,       \* the published recipe documents: id, title, ingredients
    expansion,  \* seed list -> what resolveRelatedRecipeIds returns for it over rows
    store,      \* id -> the stored visibility object of that document
    call,       \* per caller: the activation of setRecipesVisibility
    hist,       \* per caller: what the current call has observably done so far
    faults,     \* failed commit attempts so far (counted by the retry specification)
    request,    \* per caller: the PATCH request the route handler is serving
    probe       \* the last application of one of the library's functions

vars == <<env, writeClients, rows, expansion, store, call, hist, faults, request, probe>>

Procs == {1, 2}

Slots == <<"SANITY_API_WRITE_TOKEN", "SANITY_API_TOKEN", "SANITY_API_READ_TOKEN">>
SlotSet == {Slots[k] : k \in 1..Len(Slots)}

ADMIN_AUDIENCES == {"public", "enterprise"}

\* How one commit() through one client ends: it resolves, or it rejects with a
\* message holding "session does not match project host", with one holding
\* "insufficient permissions", or with any other error.
Outcomes == {"ok", "hostMismatch", "permission", "other"}

\* Boolean(flag) of an optional stored flag.
Boolean(flag) == flag # <<>> /\ flag[1]

\* The order-preserving selections of the slots in some set.
RECURSIVE selections(_, _)
selections(slots, allowed) ==
    IF slots = <<>> THEN {<<>>}
    ELSE LET rest == selections(Tail(slots), allowed)
         IN  rest \cup (IF Head(slots) \in allowed THEN {<<Head(slots)>> \o r : r \in rest} ELSE {})

\* The chains getSanityWriteClients can return under an environment: clients
\* of populated slots, in priority order.
getSanityWriteClients(populated) == selections(Slots, populated)

\* The check with its condition inverted.
assertWriteTokenConfiguredInverted(populated) ==
    ~(\/ "SANITY_API_WRITE_TOKEN" \in populated
      \/ "SANITY_API_TOKEN" \in populated
      \/ "SANITY_API_READ_TOKEN" \in populated)

assertWriteTokenConfigured(populated) ==
    \/ "SANITY_API_WRITE_TOKEN" \in populated
    \/ "SANITY_API_TOKEN" \in populated
    \/ "SANITY_API_READ_TOKEN" \in populated

\* ADMIN_VISIBILITY_ROWS_QUERY: id and visibility of the documents whose id is in ids.
RECURSIVE visibilityRows(_, _, _)
visibilityRows(docs, visibility, ids) ==
    IF docs = <<>> THEN <<>>
    ELSE (IF \E k \in 1..Len(ids) : ids[k] = Head(docs).id
          THEN <<[id |-> Head(docs).id, visibility |-> visibility[Head(docs).id]]>>
          ELSE <<>>) \o visibilityRows(Tail(docs), visibility, ids)

\* A next state that flips the other audience's flag.
nextVisibilityFlipOther(row, audience, value) ==
    [[public |-> ~Boolean(row.visibility.public),
      enterprise |-> ~Boolean(row.visibility.enterprise)] EXCEPT ![audience] = value]

\* A next state that resets the other audience's flag.
nextVisibilityOnlyAudience(row, audience, value) ==
    [[public |-> FALSE, enterprise |-> FALSE] EXCEPT ![audience] = value]

\* The next state of one row: both flags as booleans, the audience's one overridden.
nextVisibility(row, audience, value) ==
    [[public |-> Boolean(row.visibility.public),
      enterprise |-> Boolean(row.visibility.enterprise)] EXCEPT ![audience] = value]

\* What client.patch(id).set({...}).commit() stores.
committed(next) == [public |-> <<next.public>>, enterprise |-> <<next.enterprise>>]

IdleCall ==
    [pc |-> "idle", seedIds |-> <<>>, audience |-> "public", value |-> FALSE,
     uniqueSeedIds |-> <<>>, relatedIds |-> <<>>, currentRows |-> <<>>,
     row |-> 0, client |-> 0, sawHostMismatch |-> FALSE, sawPermissionFailure |-> FALSE,
     attemptedSources |-> <<>>, updatedIds |-> <<>>, result |-> <<>>, error |-> ""]

NoHist(visibility) ==
    [before |-> visibility, fetches |-> 0,
     commits |-> [id \in DOMAIN visibility |-> 0],
     patched |-> "", attempts |-> <<>>,
     clean |-> TRUE, fatal |-> FALSE, repeat |-> FALSE, retry |-> FALSE]

returned(c, updatedIds, relatedIds) ==
    [c EXCEPT !.pc = "returned",
              !.result = <<[updatedIds |-> updatedIds, relatedIds |-> relatedIds]>>]

thrown(c, error) == [c EXCEPT !.pc = "thrown", !.error = error]

\* The two checks of the exhausted chain in the other order.
exhaustedErrorHostFirst(sawPermissionFailure, sawHostMismatch) ==
    IF sawHostMismatch THEN "project"
    ELSE IF sawPermissionFailure THEN "permission"
    ELSE "generic"

\* The error patchRecipeVisibility raises once the chain is exhausted.
exhaustedError(sawPermissionFailure, sawHostMismatch) ==
    IF sawPermissionFailure THEN "permission"
    ELSE IF sawHostMismatch THEN "project"
    ELSE "generic"

\* patchRecipeVisibility up to its first commit: the first client is attempted, or
\* the loop over an empty chain ends at once.
beginPatch(c, row, clients) ==
    LET fresh == [c EXCEPT !.row = row, !.client = 1,
                           !.sawHostMismatch = FALSE, !.sawPermissionFailure = FALSE,
                           !.attemptedSources = <<>>]
    IN  IF clients = <<>> THEN thrown(fresh, exhaustedError(FALSE, FALSE))
        ELSE [fresh EXCEPT !.pc = "patch", !.attemptedSources = <<clients[1]>>]

\* A loop that does not record the row it has written.
afterCommitNoRecord(c, clients) ==
    IF c.row < Len(c.currentRows) THEN beginPatch(c, c.row + 1, clients)
    ELSE returned(c, c.updatedIds, c.relatedIds)

\* A loop that returns after its first commit.
afterCommitFirstOnly(c, clients) ==
    LET done == [c EXCEPT !.updatedIds = Append(@, c.currentRows[c.row].id)]
    IN  returned(done, done.updatedIds, done.relatedIds)

\* The call after the commit of its current row resolved: the next row, or the return.
afterCommit(c, clients) ==
    LET done == [c EXCEPT !.updatedIds = Append(@, c.currentRows[c.row].id)]
    IN  IF c.row < Len(c.currentRows) THEN beginPatch(done, c.row + 1, clients)
        ELSE returned(done, done.updatedIds, done.relatedIds)

\* A rejection handler for which a host mismatch ends the chain at once.
afterRejectHostFatal(c, outcome, clients) ==
    IF outcome \in {"other", "hostMismatch"} THEN thrown(c, "underlying")
    ELSE LET seen == [c EXCEPT !.sawPermissionFailure = TRUE]
         IN  IF c.client < Len(clients)
             THEN [seen EXCEPT !.client = c.client + 1,
                               !.attemptedSources = Append(@, clients[c.client + 1])]
             ELSE thrown(seen, "permission")

\* A rejection handler that goes on to the next client after any error.
afterRejectNeverFatal(c, outcome, clients) ==
    LET seen == [c EXCEPT
            !.sawHostMismatch = @ \/ outcome = "hostMismatch",
            !.sawPermissionFailure = @ \/ outcome = "permission"]
    IN  IF c.client < Len(clients)
        THEN [seen EXCEPT !.client = c.client + 1,
                          !.attemptedSources = Append(@, clients[c.client + 1])]
        ELSE thrown(seen, IF seen.sawPermissionFailure THEN "permission"
                          ELSE IF seen.sawHostMismatch THEN "project" ELSE "generic")

\* The call after the commit through its current client was rejected.
afterReject(c, outcome, clients) ==
    IF outcome = "other" THEN thrown(c, "underlying")
    ELSE LET seen == [c EXCEPT
                 !.sawHostMismatch = @ \/ outcome = "hostMismatch",
                 !.sawPermissionFailure = @ \/ outcome = "permission"]
         IN  IF c.client < Len(clients)
             THEN [seen EXCEPT !.client = c.client + 1,
                               !.attemptedSources = Append(@, clients[c.client + 1])]
             ELSE thrown(seen, exhaustedError(seen.sawPermissionFailure, seen.sawHostMismatch))

\* setRecipesVisibility from its entry to its first await.
enter(seedIds, audience, value, populated) ==
    LET c == [IdleCall EXCEPT !.seedIds = seedIds, !.audience = audience, !.value = value]
        uniqueSeedIds == uniqueTrimmed(seedIds)
    IN  IF ~assertWriteTokenConfigured(populated) THEN thrown(c, "config")
        ELSE IF uniqueSeedIds = <<>> THEN returned(c, <<>>, <<>>)
        ELSE [c EXCEPT !.pc = "resolve", !.uniqueSeedIds = uniqueSeedIds]

\* resolveRelatedRecipeIds after the await of its query: the rejection of the query
\* is thrown on, no related id is the empty result.
afterRelationQuery(c, answered, relatedIds) ==
    IF ~answered THEN thrown(c, "underlying")
    ELSE IF relatedIds = <<>> THEN returned(c, <<>>, <<>>)
    ELSE [c EXCEPT !.pc = "fetchRows", !.relatedIds = relatedIds]

\* setRecipesVisibility after the await of the visibility query, up to the first
\* commit: the rejection of the query is thrown on.
afterVisibilityQuery(c, answered, currentRows, clients) ==
    IF ~answered THEN thrown(c, "underlying")
    ELSE IF currentRows = <<>> THEN returned(c, <<>>, c.relatedIds)
    ELSE beginPatch([c EXCEPT !.currentRows = currentRows], 1, clients)

\* A patch that reaches every document of the store.
storeAfterCommitEveryDocument(visibility, c, outcome) ==
    LET row == c.currentRows[c.row]
    IN  IF outcome = "ok"
        THEN [id \in DOMAIN visibility |-> committed(nextVisibility(row, c.audience, c.value))]
        ELSE visibility

\* A store that applies a patch although the commit was rejected for its permissions.
storeAfterCommitDespiteDenial(visibility, c, outcome) ==
    LET row == c.currentRows[c.row]
    IN  IF outcome \in {"ok", "permission"}
        THEN [visibility EXCEPT ![row.id] = committed(nextVisibility(row, c.audience, c.value))]
        ELSE visibility

\* The store after the commit of the call's current row ended with outcome.
storeAfterCommit(visibility, c, outcome) ==
    LET row == c.currentRows[c.row]
    IN  IF outcome = "ok"
        THEN [visibility EXCEPT ![row.id] = committed(nextVisibility(row, c.audience, c.value))]
        ELSE visibility

(***************************************************************************)
(* Inputs: the corpora, the stored flags and the requests.                 *)
(***************************************************************************)
NoIngredient == <<>>
Line(item, text) == [item |-> item, text |-> text]

\* One component a-b-c-d-e (a names b and c, c names d, e names a) and the lone f.
CorpusLinked ==
    << [id |-> "a", pluNumber |-> 1, title |-> "Burger",
        ingredients |-> <<Line(<<"1 PTN Bun">>, <<>>), Line(<<"Relish">>, <<"2 ptn red-onion relish">>)>>],
       [id |-> "b", pluNumber |-> 2, title |-> "Bun", ingredients |-> NoIngredient],
       [id |-> "c", pluNumber |-> 3, title |-> "Red Onion Relish", ingredients |-> <<Line(<<>>, <<"PTN  Jam ">>)>>],
       [id |-> "d", pluNumber |-> 4, title |-> "Jam (plum)", ingredients |-> NoIngredient],
       [id |-> "e", pluNumber |-> 5, title |-> "Soup", ingredients |-> <<Line(<<"PTN BURGER">>, <<"PTN burger">>)>>],
       [id |-> "f", pluNumber |-> 6, title |-> "Salad", ingredients |-> <<Line(<<"PTNs jam">>, <<"oil">>)>>] >>

\* No edge: the label of a scores 68 against the title of d, and d names itself.
CorpusLoose ==
    << [id |-> "a", pluNumber |-> 1, title |-> "Tea", ingredients |-> <<Line(<<"PTN a b c d e">>, <<>>)>>],
       [id |-> "d", pluNumber |-> 4, title |-> "a b c x", ingredients |-> <<Line(<<"PTN a b c x">>, <<>>)>>] >>

CorpusEmpty == <<>>

Corpora == {CorpusLinked, CorpusLoose, CorpusEmpty}

VisibilityPatterns ==
    << [public |-> <<>>, enterprise |-> <<>>],
       [public |-> <<TRUE>>, enterprise |-> <<FALSE>>],
       [public |-> <<FALSE>>, enterprise |-> <<TRUE>>] >>

\* The stores of a corpus: the patterns dealt to the documents in turn, from any start.
InitialStoreAt(docs, shift) ==
    [id \in rowIds(docs) |->
        LET k == CHOOSE i \in 1..Len(docs) : docs[i].id = id
        IN  VisibilityPatterns[((k + shift) % Len(VisibilityPatterns)) + 1]]
InitialStores(docs) == {InitialStoreAt(docs, shift) : shift \in 1..Len(VisibilityPatterns)}

SeedLists == {<<"a">>, <<" d ", "d">>, <<"f", "zz">>, <<"", "\f \t ">>, <<>>}

(***************************************************************************)
(* The PATCH handler of the admin route (web/app/api/admin/recipes).       *)
(* An optional JSON value is <<>> (absent, or not of the type the handler  *)
(* asks for) or <<v>>.                                                     *)
(***************************************************************************)
\* The non-empty members of seq, each once, in order: [...new Set(seq.filter(Boolean))].
RECURSIVE uniqueNonEmpty(_)
uniqueNonEmpty(seq) ==
    IF seq = <<>> THEN <<>>
    ELSE LET n == Len(seq)
         IN  addAll(uniqueNonEmpty(SubSeq(seq, 1, n - 1)), IF seq[n] = "" THEN <<>> ELSE <<seq[n]>>)

\* body.ids filtered to its strings, each trimmed.
RECURSIVE trimmedStrings(_)
trimmedStrings(items) ==
    IF items = <<>> THEN <<>>
    ELSE (IF Head(items) = <<>> THEN <<>> ELSE <<trim(Head(items)[1])>>) \o trimmedStrings(Tail(items))

targetIdsOf(body) ==
    LET id == IF body.id = <<>> THEN "" ELSE trim(body.id[1])
        ids == IF body.ids = <<>> THEN <<>> ELSE trimmedStrings(body.ids[1])
    IN  uniqueNonEmpty(<<id>> \o ids)

\* The error of the 400 response of PATCH for a parsed body, "" when it has none.
validatePatch(body) ==
    LET targetIds == targetIdsOf(body)
    IN  IF targetIds = <<>> THEN "id or ids is required"
        ELSE IF \E k \in 1..Len(targetIds) : startsWith(targetIds[k], "drafts.")
        THEN "draft ids are not supported"
        ELSE IF body.audience = <<>> \/ body.audience[1] \notin ADMIN_AUDIENCES
        THEN "audience must be \"public\" or \"enterprise\""
        ELSE IF body.value = <<>> THEN "value must be a boolean"
        ELSE ""

\* The bodies of the requests: value is <<>> for a value that is no boolean.
PatchBodies ==
    [id : {<<>>, <<"">>, <<"a">>, <<"drafts.a">>},
     ids : {<<>>, <<<<>>>>, <<<< <<>>, <<" \f">> >>>>, <<<< <<" d ">>, <<>>, <<"d">> >>>>},
     audience : {<<>>, <<"public">>, <<"enterprise">>, <<"all">>},
     value : {<<>>, <<TRUE>>, <<FALSE>>}]

\* What the handler reads of a JSON body that is a number, a string, a boolean or an
\* array: none of its four properties.
AbsentBody == [id |-> <<>>, ids |-> <<>>, audience |-> <<>>, value |-> <<>>]

\* A request has no valid key, a body that is no JSON, the JSON body null, a JSON body
\* that is no object (scalar) or a JSON object.
RequestKinds == {"unauthorized", "badJson", "null", "scalar", "json"}

\* The project ids the environment may hold, and the messages of the errors the store
\* raises that setRecipesVisibility passes on.
ProjectIds == {"abc123", "permission-sandbox", "<missing-project-id>"}
UnderlyingMessages == {"fetch failed", "Permission denied"}

\* What resolveRelatedRecipeIds returns over docs for each normalised seed list.
relatedIdsOver(docs) ==
    [seeds \in {uniqueTrimmed(list) : list \in SeedLists \cup {targetIdsOf(body) : body \in PatchBodies}}
        |-> resolveRelatedRecipeIds(seeds, docs)]

\* The failed commit attempts of one behaviour of the retry specification.
MaxFaults == 2

\* The chain a-b-c-d, the pair e-f and the lone g.
CorpusChain ==
    << [id |-> "a", pluNumber |-> 1, title |-> "Stock", ingredients |-> <<Line(<<"PTN Roux">>, <<"500 ml water">>)>>],
       [id |-> "b", pluNumber |-> 2, title |-> "Roux", ingredients |-> <<Line(<<>>, <<"1 PTN Gravy">>)>>],
       [id |-> "c", pluNumber |-> 3, title |-> "Gravy", ingredients |-> <<Line(<<"ptn mash">>, <<>>)>>],
       [id |-> "d", pluNumber |-> 4, title |-> "Mash", ingredients |-> NoIngredient],
       [id |-> "e", pluNumber |-> 5, title |-> "Pie", ingredients |-> <<Line(<<"2 PTN Crust">>, <<"2 PTN Crust">>)>>],
       [id |-> "f", pluNumber |-> 6, title |-> "Crust", ingredients |-> NoIngredient],
       [id |-> "g", pluNumber |-> 7, title |-> "Tea", ingredients |-> NoIngredient] >>

\* The label of p scores 72 against the title of q (three of its four tokens match),
\* the label of r scores 68 against it (three of five).
CorpusThreshold ==
    << [id |-> "p", pluNumber |-> 16, title |-> "Curry", ingredients |-> <<Line(<<"PTN red onion relish dip">>, <<>>)>>],
       [id |-> "q", pluNumber |-> 17, title |-> "Red Onion Relish Jam", ingredients |-> NoIngredient],
       [id |-> "r", pluNumber |-> 18, title |-> "Wrap", ingredients |-> <<Line(<<>>, <<"3 PTN red onion relish dip mix">>)>>] >>

\* r names itself (its label Jam scores 120 against its own title and 110 against the
\* title of t) and names u.
CorpusRival ==
    << [id |-> "r", pluNumber |-> 18, title |-> "Jam",
        ingredients |-> <<Line(<<"PTN Jam">>, <<>>), Line(<<"PTN Toast">>, <<"butter">>)>>],
       [id |-> "t", pluNumber |-> 20, title |-> "Jam (plum)", ingredients |-> NoIngredient],
       [id |-> "u", pluNumber |-> 21, title |-> "Toast", ingredients |-> NoIngredient] >>

\* The pair a-d and the lone f.
CorpusPair ==
    << [id |-> "a", pluNumber |-> 1, title |-> "Gravy", ingredients |-> <<Line(<<"PTN Mash">>, <<>>)>>],
       [id |-> "d", pluNumber |-> 4, title |-> "Mash", ingredients |-> NoIngredient],
       [id |-> "f", pluNumber |-> 6, title |-> "Tea", ingredients |-> NoIngredient] >>

\* The label Jam of x scores 85 against the title of w and 110 against the titles of
\* y and of z; the label "plum fig" scores 0 against every title.
CorpusTie ==
    << [id |-> "w", pluNumber |-> 23, title |-> "Plum Jam", ingredients |-> NoIngredient],
       [id |-> "y", pluNumber |-> 25, title |-> "Jam (plum)", ingredients |-> NoIngredient],
       [id |-> "z", pluNumber |-> 26, title |-> "Jam (fig)", ingredients |-> NoIngredient],
       [id |-> "x", pluNumber |-> 24, title |-> "Toast", ingredients |-> <<Line(<<"PTN Jam">>, <<"PTN plum fig">>)>>] >>

\* The cycle a-b-c-a.
CorpusCycle ==
    << [id |-> "a", pluNumber |-> 1, title |-> "Stew", ingredients |-> <<Line(<<"PTN Dumpling">>, <<>>)>>],
       [id |-> "b", pluNumber |-> 2, title |-> "Dumpling", ingredients |-> <<Line(<<"PTN Broth">>, <<>>)>>],
       [id |-> "c", pluNumber |-> 3, title |-> "Broth", ingredients |-> <<Line(<<>>, <<"1 l PTN Stew">>)>>] >>

\* a names c and e, which name nothing.
CorpusFork ==
    << [id |-> "c", pluNumber |-> 3, title |-> "Bun", ingredients |-> NoIngredient],
       [id |-> "a", pluNumber |-> 1, title |-> "Burger",
        ingredients |-> <<Line(<<"PTN Bun">>, <<"toasted">>), Line(<<"2 PTN Relish">>, <<>>)>>],
       [id |-> "e", pluNumber |-> 5, title |-> "Relish", ingredients |-> NoIngredient],
       [id |-> "g", pluNumber |-> 7, title |-> "Tea", ingredients |-> NoIngredient] >>

\* k names the recipe titled Proto with the label __proto__.
CorpusProto ==
    << [id |-> "p", pluNumber |-> 16, title |-> "Proto", ingredients |-> NoIngredient],
       [id |-> "b", pluNumber |-> 2, title |-> "Bun", ingredients |-> NoIngredient],
       [id |-> "k", pluNumber |-> 11, title |-> "Burger",
        ingredients |-> <<Line(<<"PTN __proto__">>, <<>>)>>] >>

\* The corpora the library's functions are applied to.
GraphCorpora ==
    Corpora \cup {CorpusChain, CorpusThreshold, CorpusRival, CorpusTie, CorpusCycle, CorpusFork,
                  CorpusProto}

\* The seed lists resolveRelatedRecipeIds is applied to: up to two of these ids.
SeedIdInputs == {"a", "c", "e", "g", "zz", " d\f", "r"}
SeedInputs == {<<>>} \cup {<<x>> : x \in SeedIdInputs}
                  \cup {<<x, y>> : x \in SeedIdInputs, y \in SeedIdInputs}

\* The labels and titles the matcher is applied to.
ScoreLabelInputs ==
    {"red onion", "red onion relish", "Red-Onion", "", " \t", "--", "onion",
     "red onion relish dip", "red onion relish dip mix", "relish of red beet", "relish red", "tea",
     "b c d e f g h i j k"}
ScoreTitleInputs ==
    {"Red Onion Relish", "Red Onion", "", "(!)", "Sweet Red Onion Jam", "Red Onion Relish Jam",
     "K J I H G F E D C", "K J I H G F E D", "K J I H G F E", "K J I H G F", "K J I H G"}

\* The label lists findSubRecipeTargets is applied to.
LabelInputs ==
    {<<>>, <<"Bun">>, <<" Bun ", "Bun">>, <<"">>, <<"Jam", " ">>, <<"!!">>, <<"zest">>,
     <<"__proto__", "Bun">>, <<"__proto__ jam">>, <<" __proto__">>,
     <<"red onion relish dip">>, <<"red onion relish dip mix", "Jam">>, <<"Toast", "Jam">>}

\* The labels resolved by the graph builder and by navigation.
ResolveLabelInputs ==
    {"Jam", " jam ", "Toast", "Mash", "plum", "fig jam", "red onion relish dip", "__proto__",
     "red onion relish dip mix", "zest", "!!", ""}

\* The changes made to the documents or to the stored flags while one query is awaited.
MaxEdits == 1

\* The ingredient lists collectPtnLabels is applied to: up to MaxLines of these lines.
MaxLines == 2
LineInputs ==
    {Line(<<"PTN Jam">>, <<"1 PTN Jam">>), Line(<<"PTN Toast">>, <<"PTN Jam">>),
     Line(<<>>, <<"butter">>), Line(<<"1 Ptn a PTN b">>, <<"PTN ">>)}
IngredientInputs == UNION {[1..n -> LineInputs] : n \in 0..MaxLines}

AudienceFilters == {"public", "enterprise", "all"}

\* The values extractPtnReference is applied to: <<>> is a value that is no string.
ExtractInputs ==
    {<<>>} \cup {<<s>> : s \in
        {"10 PTN Pickled Red Onio", "ptn  jam ", "PTN", "PTN ", "PTN   ", "xPTN jam",
         "PTNs jam", "oil", "", "1 Ptn a PTN b", "2 PTN Jam\n", "PTN Jam\nplum",
         "PTN \n jam", "a_PTN b", "a-pTn\tb c", "PTN\t\r",
         "PTN\fJam", "PTN \f", "2 PTN Mash ", "PTNCrème"}}

NoRequest == [pc |-> "none"]
NoProbe == [op |-> "none"]

(***************************************************************************)
(* The state machine.                                                      *)
(***************************************************************************)
Init ==
    /\ env \in SUBSET SlotSet
    /\ writeClients \in getSanityWriteClients(env)
    /\ rows \in Corpora
    /\ expansion = relatedIdsOver(rows)
    /\ store \in InitialStores(rows)
    /\ call = [p \in Procs |-> IdleCall]
    /\ hist = [p \in Procs |-> NoHist(store)]
    /\ faults = 0
    /\ request = [p \in Procs |-> NoRequest]
    /\ probe = NoProbe

\* A caller invokes setRecipesVisibility(seedIds, audience, value).
Call(p) ==
    /\ call[p].pc = "idle"
    /\ \E seedIds \in SeedLists, audience \in ADMIN_AUDIENCES, value \in BOOLEAN :
           call' = [call EXCEPT ![p] = enter(seedIds, audience, value, env)]
    /\ hist' = [hist EXCEPT ![p] = NoHist(store)]
    /\ UNCHANGED <<request, probe, env, writeClients, rows, expansion, store, faults>>

\* The caller runs the same request again once the call has returned or thrown.
Rerun(p) ==
    /\ call[p].pc \in {"returned", "thrown"}
    /\ call' = [call EXCEPT ![p] = enter(call[p].seedIds, call[p].audience, call[p].value, env)]
    /\ hist' = [hist EXCEPT ![p] = [NoHist(store) EXCEPT !.repeat = (call[p].pc = "returned"),
                                                          !.retry = (call[p].pc = "thrown")]]
    /\ UNCHANGED <<request, probe, env, writeClients, rows, expansion, store, faults>>

\* await resolveRelatedRecipeIds(uniqueSeedIds): the relation-graph query is answered
\* or rejected, and the expansion follows an answer.  The result over rows is read
\* from expansion, which holds it for the rows of the state.
resolveStep(p, answered) ==
    /\ call[p].pc = "resolve"
    /\ call' = [call EXCEPT ![p] =
           afterRelationQuery(@, answered, expansion[call[p].uniqueSeedIds])]
    /\ hist' = [hist EXCEPT ![p].fetches = @ + 1, ![p].clean = @ /\ answered]
    /\ UNCHANGED <<request, probe, env, writeClients, rows, expansion, store>>

Resolve(p) ==
    /\ \E answered \in BOOLEAN : resolveStep(p, answered)
    /\ UNCHANGED faults

\* await fetch(ADMIN_VISIBILITY_ROWS_QUERY): the query is answered or rejected; the
\* loop up to the first commit follows an answer.
fetchRowsStep(p, answered) ==
    /\ call[p].pc = "fetchRows"
    /\ call' = [call EXCEPT ![p] =
           afterVisibilityQuery(@, answered,
                                visibilityRows(rows, store, call[p].relatedIds), writeClients)]
    /\ hist' = [hist EXCEPT ![p].fetches = @ + 1, ![p].clean = @ /\ answered]
    /\ UNCHANGED <<request, probe, env, writeClients, rows, expansion, store>>

FetchRows(p) ==
    /\ \E answered \in BOOLEAN : fetchRowsStep(p, answered)
    /\ UNCHANGED faults

\* What the call has observably done after one more commit attempt.
noteAttempt(h, c, source, outcome) ==
    LET id == c.currentRows[c.row].id
        entry == [source |-> source, outcome |-> outcome]
    IN  [h EXCEPT !.attempts = IF h.patched = id THEN Append(@, entry) ELSE <<entry>>,
                  !.patched = id,
                  !.commits[id] = IF outcome = "ok" THEN @ + 1 ELSE @,
                  !.clean = @ /\ outcome = "ok",
                  !.fatal = @ \/ outcome = "other"]

\* The commit through the current client ends with outcome.
commitStep(p, outcome) ==
    /\ call[p].pc = "patch"
    /\ store' = storeAfterCommit(store, call[p], outcome)
    /\ call' = [call EXCEPT ![p] =
           IF outcome = "ok" THEN afterCommit(@, writeClients)
           ELSE afterReject(@, outcome, writeClients)]
    /\ hist' = [hist EXCEPT ![p] = noteAttempt(@, call[p], writeClients[call[p].client], outcome)]
    /\ UNCHANGED <<request, probe, env, writeClients, rows, expansion>>

Commit(p) ==
    /\ \E outcome \in Outcomes : commitStep(p, outcome)
    /\ UNCHANGED faults

\* The same, of an environment whose commits fail at most MaxFaults times.
CommitWithin(p) ==
    \E outcome \in Outcomes :
        /\ outcome # "ok" => faults < MaxFaults
        /\ commitStep(p, outcome)
        /\ faults' = IF outcome = "ok" THEN faults ELSE faults + 1

\* The queries of an environment that rejects a query or a commit at most MaxFaults
\* times.
ResolveWithin(p) ==
    \E answered \in BOOLEAN :
        /\ ~answered => faults < MaxFaults
        /\ resolveStep(p, answered)
        /\ faults' = IF answered THEN faults ELSE faults + 1

FetchRowsWithin(p) ==
    \E answered \in BOOLEAN :
        /\ ~answered => faults < MaxFaults
        /\ fetchRowsStep(p, answered)
        /\ faults' = IF answered THEN faults ELSE faults + 1

\* The caller runs the request again after every run that threw.
RerunFailed(p) ==
    /\ call[p].pc = "thrown"
    /\ Rerun(p)

\* One caller: no other request runs.
Caller == CHOOSE p \in Procs : \A q \in Procs : p <= q

Next ==
    \/ Call(Caller)
    \/ Rerun(Caller)
    \/ Resolve(Caller)
    \/ FetchRows(Caller)
    \/ Commit(Caller)

Spec == Init /\ [][Next]_vars

\* One request, run again after each failure, while the failures of its queries and
\* commits come to an end.
RetryNext ==
    \/ Call(Caller)
    \/ RerunFailed(Caller)
    \/ ResolveWithin(Caller)
    \/ FetchRowsWithin(Caller)
    \/ CommitWithin(Caller)

RetrySpec == Init /\ [][RetryNext]_vars /\ WF_vars(RetryNext)

(***************************************************************************)
(* Two callers whose requests run concurrently: the steps of one call       *)
(* interleave with the steps of the other at every await.                  *)
(***************************************************************************)
PairInit ==
    /\ env \in {{Slots[k]} : k \in 1..Len(Slots)}
    /\ writeClients \in getSanityWriteClients(env)
    /\ rows = CorpusPair
    /\ expansion = relatedIdsOver(rows)
    /\ store \in InitialStores(rows)
    /\ call = [p \in Procs |-> IdleCall]
    /\ hist = [p \in Procs |-> NoHist(store)]
    /\ faults = 0
    /\ request = [p \in Procs |-> NoRequest]
    /\ probe = NoProbe

PairNext ==
    \E p \in Procs :
        \/ Call(p)
        \/ Resolve(p)
        \/ FetchRows(p)
        \/ Commit(p)

PairSpec == PairInit /\ [][PairNext]_vars

(***************************************************************************)
(* One PATCH request served by the route handler.                          *)
(***************************************************************************)
respond(r, status, error) == [pc |-> "responded", kind |-> r.kind, body |-> r.body,
                              status |-> status, error |-> error]

\* Array.prototype.join.
RECURSIVE join(_, _)
join(seq, sep) ==
    IF seq = <<>> THEN ""
    ELSE IF Len(seq) = 1 THEN seq[1]
    ELSE seq[1] \o sep \o join(Tail(seq), sep)

\* The messages of the errors patchRecipeVisibility and assertWriteTokenConfigured raise.
permissionMessage(attemptedSources) ==
    "Sanity token lacks update permission for recipe documents. Tried: "
        \o join(attemptedSources, ", ")
        \o ". Use a token with update grants (prefer SANITY_API_WRITE_TOKEN) and restart the dev server."
projectMessage(projectId) ==
    "Sanity write token does not belong to project \"" \o projectId
        \o "\". Create a write token in that exact project and set SANITY_API_WRITE_TOKEN."
GenericMessage == "Failed to update recipe visibility due to missing or invalid Sanity token."
ConfigMessage ==
    "Missing Sanity API token for updates. Set SANITY_API_WRITE_TOKEN, SANITY_API_TOKEN, or SANITY_API_READ_TOKEN."
\* The message of the handler for a thrown value that is no Error.
DefaultMessage == "Failed to update recipe visibility"

\* The messages the error of a thrown call can carry.
errorMessages(c) ==
    IF c.error = "permission" THEN {permissionMessage(c.attemptedSources)}
    ELSE IF c.error = "project" THEN {projectMessage(id) : id \in ProjectIds}
    ELSE IF c.error = "generic" THEN {GenericMessage}
    ELSE IF c.error = "config" THEN {ConfigMessage}
    ELSE UnderlyingMessages \cup {DefaultMessage}

\* message.toLowerCase().includes("permission") ? 403 : 500
errorStatus(message) == IF includes(toLowerCase(message), "permission") THEN 403 ELSE 500

\* PATCH up to its await of req.json(): a request without a valid key is answered 401,
\* for any other the body is awaited.
Patch(p) ==
    /\ request[p].pc = "none"
    /\ call[p].pc = "idle"
    /\ \E kind \in RequestKinds :
       \E body \in IF kind = "json" THEN PatchBodies ELSE {AbsentBody} :
           LET r == [kind |-> kind, body |-> body]
           IN  request' = [request EXCEPT ![p] =
                   IF kind = "unauthorized" THEN respond(r, 401, "unauthorized")
                   ELSE [pc |-> "reading", kind |-> kind, body |-> body]]
    /\ UNCHANGED <<probe, env, writeClients, rows, expansion, store, call, hist, faults>>

\* PATCH from the answer of req.json() to its await of setRecipesVisibility: a body that
\* is no JSON is answered 400; reading body.id of null throws a TypeError outside any
\* try and the handler answers nothing; a body that fails a check is answered 400; for
\* any other setRecipesVisibility is entered.
ReadBody(p) ==
    /\ request[p].pc = "reading"
    /\ call[p].pc = "idle"
    /\ LET r == request[p]
           error == validatePatch(r.body)
       IN  IF r.kind = "badJson"
           THEN /\ request' = [request EXCEPT ![p] = respond(r, 400, "Invalid JSON body")]
                /\ UNCHANGED <<call, hist>>
           ELSE IF r.kind = "null"
           THEN /\ request' = [request EXCEPT ![p] =
                       [pc |-> "thrown", kind |-> r.kind, body |-> r.body, error |-> "TypeError"]]
                /\ UNCHANGED <<call, hist>>
           ELSE IF error # ""
           THEN /\ request' = [request EXCEPT ![p] = respond(r, 400, error)]
                /\ UNCHANGED <<call, hist>>
           ELSE /\ request' = [request EXCEPT ![p] = [pc |-> "pending", kind |-> r.kind, body |-> r.body]]
                /\ call' = [call EXCEPT ![p] =
                       enter(targetIdsOf(r.body), r.body.audience[1], r.body.value[1], env)]
                /\ hist' = [hist EXCEPT ![p] = NoHist(store)]
    /\ UNCHANGED <<probe, env, writeClients, rows, expansion, store, faults>>

\* PATCH after setRecipesVisibility returned or threw: 404 or 200 for a result; for an
\* error its message, with 403 when the message holds the word permission and 500
\* otherwise.
Respond(p) ==
    /\ request[p].pc = "pending"
    /\ call[p].pc \in {"returned", "thrown"}
    /\ IF call[p].pc = "returned"
       THEN request' = [request EXCEPT ![p] =
                IF call[p].result[1].updatedIds = <<>> THEN respond(@, 404, "Not found")
                ELSE respond(@, 200, "")]
       ELSE \E message \in errorMessages(call[p]) :
                request' = [request EXCEPT ![p] = respond(@, errorStatus(message), message)]
    /\ UNCHANGED <<probe, env, writeClients, rows, expansion, store, call, hist, faults>>

RouteNext ==
    \/ Patch(Caller)
    \/ ReadBody(Caller)
    \/ Resolve(Caller)
    \/ FetchRows(Caller)
    \/ Commit(Caller)
    \/ Respond(Caller)

RouteSpec == Init /\ [][RouteNext]_vars

(***************************************************************************)
(* The library's functions applied one at a time to a corpus.              *)
(***************************************************************************)
FunctionInit ==
    /\ env = {}
    /\ writeClients = <<>>
    /\ rows \in GraphCorpora
    /\ expansion = relatedIdsOver(rows)
    /\ store = InitialStoreAt(rows, 1)
    /\ call = [p \in Procs |-> IdleCall]
    /\ hist = [p \in Procs |-> NoHist(store)]
    /\ faults = 0
    /\ request = [p \in Procs |-> NoRequest]
    /\ probe = NoProbe

\* resolveRelatedRecipeIds(seedIds) up to its await: it returns [] for no usable seed
\* or waits for the answer of the relation-graph query.
ExpandSeeds ==
    /\ probe = NoProbe
    /\ \E seedIds \in SeedInputs :
           probe' = IF uniqueTrimmed(seedIds) = <<>>
                    THEN [op |-> "resolveRelatedRecipeIds", seedIds |-> seedIds,
                          adjacency |-> <<>>, result |-> <<>>]
                    ELSE [op |-> "relationQuery", seedIds |-> seedIds, edits |-> 0]
    /\ UNCHANGED <<env, writeClients, rows, expansion, store, call, hist, faults, request>>

\* While the relation-graph query is awaited an editor removes the ingredient lines of
\* one document.
EditDocument ==
    /\ probe.op = "relationQuery"
    /\ probe.edits < MaxEdits
    /\ \E k \in 1..Len(rows) :
           /\ rows[k].ingredients # NoIngredient
           /\ rows' = [rows EXCEPT ![k].ingredients = NoIngredient]
    /\ expansion' = relatedIdsOver(rows')
    /\ probe' = [probe EXCEPT !.edits = @ + 1]
    /\ UNCHANGED <<env, writeClients, store, call, hist, faults, request>>

\* The relation-graph query is rejected, and resolveRelatedRecipeIds rejects with it, or
\* it is answered with the documents as they are now, and resolveRelatedRecipeIds
\* returns the expansion over them with the adjacency map it built (empty when it
\* returned before building one).
AnswerRelationQuery ==
    /\ probe.op = "relationQuery"
    /\ \E answered \in BOOLEAN :
           probe' = IF ~answered THEN [op |-> "rejected", query |-> probe.op]
                    ELSE [op |-> "resolveRelatedRecipeIds", seedIds |-> probe.seedIds,
                          adjacency |-> IF rows = <<>> THEN <<>> ELSE buildAdjacency(rows),
                          result |-> resolveRelatedRecipeIds(probe.seedIds, rows)]
    /\ UNCHANGED <<env, writeClients, rows, expansion, store, call, hist, faults, request>>

\* scoreTitleMatch on the normalised label and title, of the admin API and of the
\* recipes library.
ScoreTitle ==
    /\ probe = NoProbe
    /\ \E label \in ScoreLabelInputs, title \in ScoreTitleInputs :
           LET labelNorm == normalizeComparableText(label)
               titleNorm == normalizeComparableText(title)
           IN  probe' = [op |-> "scoreTitleMatch", label |-> label, title |-> title,
                         labelNorm |-> labelNorm, titleNorm |-> titleNorm,
                         score |-> scoreTitleMatch(labelNorm, titleNorm),
                         recipesLabelNorm |-> recipesNormalizeComparableText(label),
                         recipesTitleNorm |-> recipesNormalizeComparableText(title),
                         recipesScore |->
                             recipesScoreTitleMatch(recipesNormalizeComparableText(label),
                                                    recipesNormalizeComparableText(title))]
    /\ UNCHANGED <<env, writeClients, rows, expansion, store, call, hist, faults, request>>

\* findSubRecipeTargets(labels, {audience, includeAll}) up to its await: it returns {}
\* for no usable label or waits for the answer of its query.
FindTargets ==
    /\ probe = NoProbe
    /\ \E labels \in LabelInputs, audience \in AudienceFilters, includeAll \in BOOLEAN :
           probe' = IF uniqueLabels(labels) = <<>>
                    THEN [op |-> "findSubRecipeTargets", labels |-> labels,
                          audience |-> audience, includeAll |-> includeAll,
                          fetched |-> <<>>,
                          result |-> findSubRecipeTargets(labels, <<>>),
                          prototype |-> findSubRecipeTargetsPrototype(labels, <<>>)]
                    ELSE [op |-> "titleQuery", labels |-> labels, audience |-> audience,
                          includeAll |-> includeAll, edits |-> 0]
    /\ UNCHANGED <<env, writeClients, rows, expansion, store, call, hist, faults, request>>

\* While the query of findSubRecipeTargets is awaited, the commit of a propagation
\* request changes the flags of one document.
EditVisibility ==
    /\ probe.op = "titleQuery"
    /\ ~probe.includeAll
    /\ probe.edits < MaxEdits
    /\ \E id \in DOMAIN store, audience \in ADMIN_AUDIENCES, value \in BOOLEAN :
           /\ store' = [store EXCEPT ![id] =
                  committed(nextVisibility([id |-> id, visibility |-> store[id]], audience, value))]
           /\ store' # store
    /\ probe' = [probe EXCEPT !.edits = @ + 1]
    /\ UNCHANGED <<env, writeClients, rows, expansion, call, hist, faults, request>>

\* The query of findSubRecipeTargets is rejected, and the call rejects with it, or it is
\* answered with the recipes stored now and the call returns.
AnswerTitleQuery ==
    /\ probe.op = "titleQuery"
    /\ \E answered \in BOOLEAN :
           LET fetched == titleRows(rows, store, probe.audience, probe.includeAll)
           IN  probe' = IF ~answered THEN [op |-> "rejected", query |-> probe.op]
                        ELSE [op |-> "findSubRecipeTargets", labels |-> probe.labels,
                              audience |-> probe.audience, includeAll |-> probe.includeAll,
                              fetched |-> fetched,
                              result |-> findSubRecipeTargets(probe.labels, fetched),
                              prototype |-> findSubRecipeTargetsPrototype(probe.labels, fetched)]
    /\ UNCHANGED <<env, writeClients, rows, expansion, store, call, hist, faults, request>>

\* extractPtnReference(value), of the admin API and of the recipes library.
ExtractReference ==
    /\ probe = NoProbe
    /\ \E value \in ExtractInputs :
           probe' = [op |-> "extractPtnReference", value |-> value,
                     admin |-> extractPtnReference(value),
                     recipes |-> recipesExtractPtnReference(value)]
    /\ UNCHANGED <<env, writeClients, rows, expansion, store, call, hist, faults, request>>

\* One label to be resolved over the same corpus by the graph builder and by
\* navigation: findSubRecipeTargets([label], {includeAll: true}) up to its await.
ResolveLabel ==
    /\ probe = NoProbe
    /\ \E label \in ResolveLabelInputs :
           probe' = IF uniqueLabels(<<label>>) = <<>>
                    THEN [op |-> "resolveLabelTargetId", label |-> label,
                          titles |-> titleIndex(rows),
                          target |-> resolveLabelTargetId(label, titleIndex(rows)),
                          fetched |-> <<>>,
                          navigation |-> findSubRecipeTargets(<<label>>, <<>>),
                          prototype |-> findSubRecipeTargetsPrototype(<<label>>, <<>>)]
                    ELSE [op |-> "labelQuery", label |-> label]
    /\ UNCHANGED <<env, writeClients, rows, expansion, store, call, hist, faults, request>>

\* The query of navigation is rejected, or it is answered with all recipes and the label
\* is resolved by navigation and, over the titles of the same rows, by
\* resolveLabelTargetId.
AnswerLabelQuery ==
    /\ probe.op = "labelQuery"
    /\ \E answered \in BOOLEAN :
           LET fetched == titleRows(rows, store, "all", TRUE)
           IN  probe' = IF ~answered THEN [op |-> "rejected", query |-> probe.op]
                        ELSE [op |-> "resolveLabelTargetId", label |-> probe.label,
                              titles |-> titleIndex(rows),
                              target |-> resolveLabelTargetId(probe.label, titleIndex(rows)),
                              fetched |-> fetched,
                              navigation |-> findSubRecipeTargets(<<probe.label>>, fetched),
                              prototype |-> findSubRecipeTargetsPrototype(<<probe.label>>, fetched)]
    /\ UNCHANGED <<env, writeClients, rows, expansion, store, call, hist, faults, request>>

\* The relation-graph query of resolveRelatedRecipeIds is answered with the documents as
\* they are now: the traversal up to its while loop, the adjacency map built and the
\* seeds that are its keys marked visited and enqueued.
BfsStart ==
    /\ probe.op = "relationQuery"
    /\ rows # <<>>
    /\ LET adjacency == buildAdjacency(rows)
           seeded == seedQueue(adjacency, uniqueTrimmed(probe.seedIds), <<>>)
       IN  probe' = [op |-> "bfs", seedIds |-> probe.seedIds, adjacency |-> adjacency,
                     queue |-> seeded, visited |-> seeded, pushed |-> seeded,
                     steps |-> 0]
    /\ UNCHANGED <<env, writeClients, rows, expansion, store, call, hist, faults, request>>

\* One iteration of the while loop.
BfsStep ==
    /\ probe.op = "bfs"
    /\ probe.queue # <<>>
    /\ LET next == bfsStep(probe.adjacency, probe.queue, probe.visited)
       IN  probe' = [probe EXCEPT !.queue = next.queue, !.visited = next.visited,
                                  !.pushed = @ \o next.pushed, !.steps = @ + 1]
    /\ UNCHANGED <<env, writeClients, rows, expansion, store, call, hist, faults, request>>

\* collectPtnLabels(ingredients), on the lines in the order given and in another order.
CollectLabels ==
    /\ probe = NoProbe
    /\ \E ingredients \in IngredientInputs :
       \E order \in Permutations(1..Len(ingredients)) :
           LET shuffled == [k \in 1..Len(ingredients) |-> ingredients[order[k]]]
           IN  probe' = [op |-> "collectPtnLabels", ingredients |-> ingredients,
                         labels |-> collectPtnLabels(ingredients),
                         shuffled |-> shuffled,
                         shuffledLabels |-> collectPtnLabels(shuffled)]
    /\ UNCHANGED <<env, writeClients, rows, expansion, store, call, hist, faults, request>>

FunctionNext ==
    \/ ExpandSeeds
    \/ EditDocument
    \/ AnswerRelationQuery
    \/ BfsStart
    \/ BfsStep
    \/ FindTargets
    \/ EditVisibility
    \/ AnswerTitleQuery
    \/ ResolveLabel
    \/ AnswerLabelQuery
    \/ ScoreTitle
    \/ ExtractReference
    \/ CollectLabels

FunctionSpec == FunctionInit /\ [][FunctionNext]_vars

(***************************************************************************)
(* Properties of one caller's propagation requests.                        *)
(***************************************************************************)
TheCall == call[Caller]
TheHist == hist[Caller]

OtherAudience(audience) == IF audience = "public" THEN "enterprise" ELSE "public"

Range(seq) == {seq[k] : k \in 1..Len(seq)}

\* The ids linked to a member of S by one relation edge, in either direction.
Neighbours(adjacency, S) ==
    {b \in DOMAIN adjacency : \E a \in S : b \in Range(adjacency[a]) \/ a \in Range(adjacency[b])}

\* The least set that holds S and is closed under relation edges.
RECURSIVE Closure(_, _)
Closure(adjacency, S) ==
    LET T == S \cup Neighbours(adjacency, S)
    IN  IF T = S THEN S ELSE Closure(adjacency, T)

\* The connected component of the request's seeds among the stored recipes.
SeedComponent(c) ==
    LET adjacency == buildAdjacency(rows)
    IN  Closure(adjacency, {trim(c.seedIds[k]) : k \in 1..Len(c.seedIds)} \cap DOMAIN adjacency)

\* The attempts made for the row the call is at.
RowAttempts ==
    IF TheCall.row \in 1..Len(TheCall.currentRows)
       /\ TheHist.patched = TheCall.currentRows[TheCall.row].id
    THEN TheHist.attempts ELSE <<>>

\* C1: after a successful return every recipe of the seeds' connected component
\* holds the requested value for the requested audience.
C1_ComponentHoldsValue ==
    TheCall.pc = "returned" =>
        \A id \in SeedComponent(TheCall) : store[id][TheCall.audience] = <<TheCall.value>>

\* A request seeded with d alone has returned after changing the flag of a, b, c and e.
C1_Witness ==
    /\ TheCall.pc = "returned"
    /\ TheCall.seedIds = <<" d ", "d">>
    /\ SeedComponent(TheCall) = {"a", "b", "c", "d", "e"}
    /\ \E id \in {"a", "b", "e"} : TheHist.before[id][TheCall.audience] # <<TheCall.value>>

\* C2 as claimed: the stored flag of the other audience of every written recipe is
\* what it was before the request: true, false or absent.
C2_OtherFlagStoredAsBefore ==
    \A id \in Range(TheCall.updatedIds) :
        store[id][OtherAudience(TheCall.audience)] = TheHist.before[id][OtherAudience(TheCall.audience)]

\* C2 amended: every written recipe holds the requested value for the requested
\* audience; the other audience's flag keeps its truth value, a stored true or false
\* unchanged and an absent flag written back as an explicit false.
C2_OtherFlagKeepsTruthValue ==
    \A id \in Range(TheCall.updatedIds) :
        LET other == OtherAudience(TheCall.audience)
        IN  /\ store[id][TheCall.audience] = <<TheCall.value>>
            /\ store[id][other] = <<Boolean(TheHist.before[id][other])>>

\* Three written recipes whose other flag was absent, true and false before.
C2_Witness ==
    LET other == OtherAudience(TheCall.audience)
    IN  \E x, y, z \in Range(TheCall.updatedIds) :
            /\ TheHist.before[x][other] = <<>>
            /\ TheHist.before[y][other] = <<TRUE>>
            /\ TheHist.before[z][other] = <<FALSE>>

\* C3: the attempts for a recipe follow the chain in order, each one but the last
\* failed with a host mismatch or a permission denial, such a failure is followed by
\* an attempt of the next channel, and no recipe is committed twice in a request.
C3_ChainOrder ==
    /\ Len(TheHist.attempts) <= Len(writeClients)
    /\ \A k \in 1..Len(TheHist.attempts) : TheHist.attempts[k].source = writeClients[k]
    /\ \A k \in 1..(Len(TheHist.attempts) - 1) :
           TheHist.attempts[k].outcome \in {"hostMismatch", "permission"}
    /\ \A id \in DOMAIN TheHist.commits : TheHist.commits[id] <= 1
    /\ TheCall.pc = "patch" =>
           /\ TheCall.client = Len(RowAttempts) + 1
           /\ TheCall.attemptedSources = SubSeq(writeClients, 1, TheCall.client)
           /\ TheHist.commits[TheCall.currentRows[TheCall.row].id] = 0
    /\ (/\ TheHist.attempts # <<>>
        /\ TheHist.attempts[Len(TheHist.attempts)].outcome \in {"hostMismatch", "permission"}
        /\ Len(TheHist.attempts) < Len(writeClients))
       => (TheCall.pc = "patch" /\ TheCall.currentRows[TheCall.row].id = TheHist.patched)
    /\ (TheHist.attempts # <<>> /\ TheHist.attempts[Len(TheHist.attempts)].outcome = "ok")
       => (TheHist.commits[TheHist.patched] = 1 /\ TheHist.patched \in Range(TheCall.updatedIds))

\* A recipe committed through the third channel after a host mismatch and a denial.
C3_Witness ==
    /\ Len(TheHist.attempts) = 3
    /\ TheHist.attempts[1].outcome = "hostMismatch"
    /\ TheHist.attempts[2].outcome = "permission"
    /\ TheHist.attempts[3].outcome = "ok"
    /\ TheHist.commits[TheHist.patched] = 1

\* C4: after a commit failed with another error the call has thrown that error, the
\* failed attempt is the last one, and the recipe and every later recipe of the
\* component are as they were before the request.
C4_FatalAborts ==
    TheHist.fatal =>
        /\ TheCall.pc = "thrown"
        /\ TheCall.error = "underlying"
        /\ RowAttempts # <<>>
        /\ RowAttempts[Len(RowAttempts)].outcome = "other"
        /\ \A k \in TheCall.row..Len(TheCall.currentRows) :
               /\ TheHist.commits[TheCall.currentRows[k].id] = 0
               /\ store[TheCall.currentRows[k].id] = TheHist.before[TheCall.currentRows[k].id]

\* The first channel failed fatally for the second of five recipes: two more
\* channels and three more recipes were left.
C4_Witness ==
    /\ TheHist.fatal
    /\ TheCall.row = 2
    /\ Len(TheCall.currentRows) = 5
    /\ Len(RowAttempts) = 1
    /\ Len(writeClients) = 3

\* C5: the error of an exhausted chain is the permission error if an attempt was
\* denied, else the project error if an attempt saw a host mismatch, else the
\* generic credential error.
C5_ExhaustedError ==
    (TheCall.pc = "thrown" /\ TheCall.error \notin {"config", "underlying"}) =>
        /\ Len(RowAttempts) = Len(writeClients)
        /\ TheCall.error =
               IF \E k \in 1..Len(RowAttempts) : RowAttempts[k].outcome = "permission"
               THEN "permission"
               ELSE IF \E k \in 1..Len(RowAttempts) : RowAttempts[k].outcome = "hostMismatch"
               THEN "project"
               ELSE "generic"

\* A chain exhausted by a denial followed by a host mismatch raised the permission error.
C5_Witness ==
    /\ TheCall.pc = "thrown"
    /\ TheCall.error = "permission"
    /\ Len(RowAttempts) >= 2
    /\ RowAttempts[1].outcome = "permission"
    /\ RowAttempts[Len(RowAttempts)].outcome = "hostMismatch"

\* Every channel denied the commit of the row the call is at.
DeniedOnEveryChannel ==
    /\ RowAttempts # <<>>
    /\ Len(RowAttempts) = Len(writeClients)
    /\ \A k \in 1..Len(RowAttempts) : RowAttempts[k].outcome = "permission"

\* C6: when every channel denies the N-th member, the call throws the permission
\* error, members 1..N-1 hold the new value and members N..last are as before.
C6_PartialFailure ==
    (TheCall.pc = "thrown" /\ DeniedOnEveryChannel) =>
        /\ TheCall.error = "permission"
        /\ \A k \in 1..(TheCall.row - 1) :
               /\ store[TheCall.currentRows[k].id][TheCall.audience] = <<TheCall.value>>
               /\ TheCall.updatedIds[k] = TheCall.currentRows[k].id
        /\ Len(TheCall.updatedIds) = TheCall.row - 1
        /\ \A k \in TheCall.row..Len(TheCall.currentRows) :
               store[TheCall.currentRows[k].id] = TheHist.before[TheCall.currentRows[k].id]

\* The third of five members was denied on two channels; the first two changed.
C6_Witness ==
    /\ TheCall.pc = "thrown"
    /\ DeniedOnEveryChannel
    /\ Len(writeClients) >= 2
    /\ TheCall.row = 3
    /\ Len(TheCall.currentRows) = 5
    /\ \A k \in 1..2 :
           store[TheCall.currentRows[k].id] # TheHist.before[TheCall.currentRows[k].id]

\* No commit was attempted and no flag changed since the call was entered.
NothingWritten ==
    /\ store = TheHist.before
    /\ TheHist.attempts = <<>>
    /\ \A id \in DOMAIN TheHist.commits : TheHist.commits[id] = 0

\* C7: with no credential slot populated the call throws the configuration error
\* before any read or write.
C7_FailFastUnconfigured ==
    (env = {} /\ TheCall.pc # "idle") =>
        /\ TheCall.pc = "thrown"
        /\ TheCall.error = "config"
        /\ TheHist.fetches = 0
        /\ NothingWritten

\* A request with a usable seed has thrown the configuration error.
C7_Witness ==
    /\ env = {}
    /\ TheCall.pc = "thrown"
    /\ TheCall.error = "config"
    /\ TheCall.seedIds = <<"a">>

\* The seed list of the call is empty after trimming and deduplication.
NoUsableSeed == \A k \in 1..Len(TheCall.seedIds) : trim(TheCall.seedIds[k]) = ""

\* C8 as claimed: in every configuration a call without a usable seed returns the
\* empty result and reads and writes nothing.
C8_EmptySeedsReturnEmpty ==
    (TheCall.pc # "idle" /\ NoUsableSeed) =>
        /\ TheCall.pc = "returned"
        /\ TheCall.result = <<[updatedIds |-> <<>>, relatedIds |-> <<>>]>>
        /\ TheHist.fetches = 0
        /\ NothingWritten

\* C8 amended: a call without a usable seed reads and writes nothing in any
\* configuration; it returns the empty result when a credential slot is populated
\* and throws the configuration error when none is.
C8_EmptySeedsNoStoreAccess ==
    (TheCall.pc # "idle" /\ NoUsableSeed) =>
        /\ TheHist.fetches = 0
        /\ NothingWritten
        /\ env # {} =>
               /\ TheCall.pc = "returned"
               /\ TheCall.result = <<[updatedIds |-> <<>>, relatedIds |-> <<>>]>>
        /\ env = {} => (TheCall.pc = "thrown" /\ TheCall.error = "config")

\* A list of blank seeds returned the empty result over a corpus that holds recipes.
C8_Witness ==
    /\ TheCall.pc = "returned"
    /\ TheCall.seedIds = <<"", "\f \t ">>
    /\ TheCall.result = <<[updatedIds |-> <<>>, relatedIds |-> <<>>]>>
    /\ rows # <<>>

\* C9: a run that repeats a request right after its successful run leaves both
\* flags of every recipe as that run left them, and it returns unless one of its
\* own commit attempts is rejected.
C9_Idempotent ==
    TheHist.repeat =>
        /\ store = TheHist.before
        /\ (TheCall.pc = "thrown" => ~TheHist.clean)
        /\ (TheCall.pc = "returned" /\ TheCall.updatedIds # <<>>) =>
               \A id \in Range(TheCall.updatedIds) :
                   store[id][TheCall.audience] = <<TheCall.value>>

\* The second run has written the five members again, after a first run that
\* changed the store.
C9_Witness ==
    /\ TheHist.repeat
    /\ TheCall.pc = "returned"
    /\ Len(TheCall.updatedIds) = 5
    /\ store \notin InitialStores(rows)

\* The request can succeed: a credential is configured and yields a channel.
ChannelsConfigured == env # {} /\ writeClients # <<>>

\* A run has returned and every member of the component holds the target value.
Converged ==
    /\ TheCall.pc = "returned"
    /\ \A id \in SeedComponent(TheCall) : store[id][TheCall.audience] = <<TheCall.value>>

\* C10: when the request is run again after every failed run and the failures come
\* to an end, eventually a run returns and from then on every member of the
\* component holds the target value.
C10_RetryConverges == ChannelsConfigured => <>[]Converged

\* A rerun after a failed run returned with all five members at the target value,
\* once every failure the environment had in store has happened.
C10_Witness ==
    /\ TheHist.retry
    /\ faults = MaxFaults
    /\ Converged
    /\ Cardinality(SeedComponent(TheCall)) = 5
    /\ \E id \in SeedComponent(TheCall) : id \notin Range(TheCall.seedIds)

(***************************************************************************)
(* Properties of the relation graph and of the component expansion.        *)
(***************************************************************************)
Expanded == probe.op = "resolveRelatedRecipeIds"

\* The seeds as the expansion receives them: trimmed, the blank ones dropped.
GivenSeeds == {trim(probe.seedIds[k]) : k \in 1..Len(probe.seedIds)} \ {""}

\* C11: the expansion returns exactly the recipes reachable from a seed over zero or
\* more edges of the graph, each once: on the chain a-b-c-d the seed a and the seed c
\* both give {a, b, c, d}, and seeds in two components give the union of the two.
C11_ExpansionIsReachableSet ==
    Expanded =>
        /\ Range(probe.result) = Closure(probe.adjacency, GivenSeeds \cap DOMAIN probe.adjacency)
        /\ Cardinality(Range(probe.result)) = Len(probe.result)
        /\ rows = CorpusChain /\ probe.seedIds \in {<<"a">>, <<"c">>}
               => Range(probe.result) = {"a", "b", "c", "d"}
        /\ rows = CorpusChain /\ probe.seedIds = <<"a", "e">>
               => Range(probe.result) = {"a", "b", "c", "d", "e", "f"}

C11_Witness ==
    /\ Expanded
    /\ rows = CorpusChain
    /\ probe.seedIds = <<"c", "e">>
    /\ Range(probe.result) = {"a", "b", "c", "d", "e", "f"}

\* C12 as claimed: every seed passed to the expansion is in the result, also a seed
\* that has no entry in the adjacency map or that meets an empty corpus.
C12_EverySeedReturned ==
    Expanded => GivenSeeds \subseteq Range(probe.result)

\* C12 as amended: a seed is in the result exactly when it is the id of a recipe of
\* the corpus; a seeded recipe with no edges is returned, alone when it is the only
\* seed, and a seed that is no recipe's id (every seed, over an empty corpus) is not.
C12_RecipeSeedsReturned ==
    Expanded =>
        /\ GivenSeeds \cap rowIds(rows) \subseteq Range(probe.result)
        /\ (GivenSeeds \ rowIds(rows)) \cap Range(probe.result) = {}
        /\ \A s \in GivenSeeds \cap rowIds(rows) :
               probe.adjacency[s] = <<>> /\ GivenSeeds \cap rowIds(rows) = {s}
                   => probe.result = <<s>>

C12_Witness ==
    /\ Expanded
    /\ rows = CorpusChain
    /\ probe.seedIds = <<"zz", "g">>
    /\ probe.result = <<"g">>

\* The graph the expansion built, when it built one.
GraphBuilt == Expanded /\ GivenSeeds # {} /\ rows # <<>>

\* C13: the adjacency map is undirected and has no self-loop: b is a neighbour of a
\* if and only if a is a neighbour of b, and no recipe is its own neighbour.
C13_UndirectedNoSelfLoop ==
    GraphBuilt =>
        /\ DOMAIN probe.adjacency = rowIds(rows)
        /\ \A a \in rowIds(rows), b \in rowIds(rows) :
               b \in Range(probe.adjacency[a]) <=> a \in Range(probe.adjacency[b])
        /\ \A a \in rowIds(rows) : a \notin Range(probe.adjacency[a])

C13_Witness ==
    /\ GraphBuilt
    /\ rows = CorpusRival
    /\ probe.adjacency["r"] = <<"u">>
    /\ probe.adjacency["u"] = <<"r">>

\* The labels of the row docs[k] and the score of a label against the title of a row.
LabelsOf(docs, k) == Range(collectPtnLabels(docs[k].ingredients))
LabelScore(label, docs, k) ==
    scoreTitleMatch(normalizeComparableText(label), normalizeComparableText(docs[k].title))
Highest(S) == CHOOSE x \in S : \A y \in S : y <= x
BestScore(label, docs) == Highest({LabelScore(label, docs, k) : k \in 1..Len(docs)})
BestRows(label, docs) == {k \in 1..Len(docs) : LabelScore(label, docs, k) = BestScore(label, docs)}

\* How often id occurs in seq.
Occurrences(seq, id) == Cardinality({k \in 1..Len(seq) : seq[k] = id})

\* C14: an edge exists only for a label whose best score is at least 72: every edge
\* comes from a label of one endpoint whose best title, with a score of 72 or more, is
\* the other endpoint; a label whose best title is another recipe's, with a score of 72
\* or more, gives one edge, recorded once at each endpoint; the label that scores 68
\* gives none and the label that scores 72 gives one.
C14_EdgesFromThreshold ==
    GraphBuilt =>
        /\ \A a \in 1..Len(rows), b \in 1..Len(rows) :
               rows[b].id \in Range(probe.adjacency[rows[a].id]) =>
                   \E x \in {a, b} : \E label \in LabelsOf(rows, x) :
                       /\ BestScore(label, rows) >= 72
                       /\ (IF x = a THEN b ELSE a) \in BestRows(label, rows)
        /\ \A a \in 1..Len(rows) : \A label \in LabelsOf(rows, a) :
               BestScore(label, rows) >= 72 /\ a \notin BestRows(label, rows) =>
                   \E b \in BestRows(label, rows) :
                       /\ Occurrences(probe.adjacency[rows[a].id], rows[b].id) = 1
                       /\ Occurrences(probe.adjacency[rows[b].id], rows[a].id) = 1
        /\ rows = CorpusThreshold =>
               /\ BestScore("red onion relish dip", rows) = 72
               /\ BestScore("red onion relish dip mix", rows) = 68
               /\ probe.adjacency = [p |-> <<"q">>, q |-> <<"p">>, r |-> <<>>]

C14_Witness ==
    /\ GraphBuilt
    /\ rows = CorpusThreshold
    /\ LabelsOf(rows, 1) = {"red onion relish dip"}
    /\ LabelScore("red onion relish dip", rows, 2) = 72
    /\ LabelsOf(rows, 3) = {"red onion relish dip mix"}
    /\ LabelScore("red onion relish dip mix", rows, 2) = 68
    /\ probe.adjacency["q"] = <<"p">>

\* C15 as claimed: a label of a recipe is resolved against the titles of the other
\* recipes: whenever another recipe scores 72 or more for it, the recipe has an edge to
\* a best-scoring one of the other recipes.
C15_EdgeToBestOther ==
    GraphBuilt =>
        \A a \in 1..Len(rows) : \A label \in LabelsOf(rows, a) :
            LET others == (1..Len(rows)) \ {a}
                scores == {LabelScore(label, rows, k) : k \in others}
            IN  others # {} /\ Highest(scores) >= 72 =>
                    \E b \in others :
                        /\ LabelScore(label, rows, b) = Highest(scores)
                        /\ rows[b].id \in Range(probe.adjacency[rows[a].id])

(***************************************************************************)
(* Properties of the title matcher, of navigation and of the extractor.    *)
(***************************************************************************)
Scored == probe.op = "scoreTitleMatch"

\* x is y cut after some of its characters; x is a stretch of y.
IsPrefixOf(x, y) == \E n \in 0..Len(y) : SubSeq(y, 1, n) = x
IsPartOf(x, y) == \E i \in 1..(Len(y) + 1) : \E j \in (i - 1)..Len(y) : SubSeq(y, i, j) = x

\* C16: on the normalised label and title the score is that of the first tier that
\* applies: one of them empty, 0; equal, 120; the title starts with the label, 110;
\* the label starts with the title, 95; the title contains the label, 85; otherwise
\* a token-overlap value.  "red onion" against "Red Onion Relish" scores 110 and
\* "red onion relish" against "Red Onion" scores 95.
C16_FirstTierWins ==
    Scored =>
        LET l == probe.labelNorm
            t == probe.titleNorm
        IN  /\ probe.score =
                   (IF l = "" \/ t = "" THEN 0
                    ELSE IF l = t THEN 120
                    ELSE IF IsPrefixOf(l, t) THEN 110
                    ELSE IF IsPrefixOf(t, l) THEN 95
                    ELSE IF IsPartOf(l, t) THEN 85
                    ELSE probe.score)
            /\ probe.score \in {0, 68, 72, 78, 85, 95, 110, 120}
            /\ probe.score \in {68, 72, 78} => ~IsPartOf(l, t) /\ ~IsPrefixOf(t, l)
            /\ probe.label = "red onion" /\ probe.title = "Red Onion Relish" => probe.score = 110
            /\ probe.label = "red onion relish" /\ probe.title = "Red Onion" => probe.score = 95

C16_Witness ==
    /\ Scored
    /\ probe.label = "red onion relish"
    /\ probe.title = "Red Onion"
    /\ probe.labelNorm = "red onion relish"
    /\ probe.titleNorm = "red onion"
    /\ probe.score = 95

Found == probe.op = "findSubRecipeTargets"

\* The best score of a label over the rows the query returned, 0 over no row.
FetchedScore(label, k) ==
    recipesScoreTitleMatch(recipesNormalizeComparableText(label),
                           recipesNormalizeComparableText(probe.fetched[k].title))
FetchedBest(label) == Highest({0} \cup {FetchedScore(label, k) : k \in 1..Len(probe.fetched)})

\* The labels of the call that are not blank, trimmed.
GivenLabels == Range(uniqueLabels(probe.labels))

\* What the caller reads for a label in the object returned.
FoundFor(label) == subRecipeTargetOf(probe.result, probe.prototype, label)

\* C17 as claimed: each non-blank label is classified by its best score over the corpus:
\* at least 72, a best title with directMatch true; from 60 up to 72, a best title with
\* directMatch false; below 60, null.
C17_ClassifiedByBestScore ==
    Found =>
        \A label \in GivenLabels :
            LET best == FetchedBest(label)
                found == FoundFor(label)
            IN  /\ best < 60 => found.kind = "null"
                /\ best >= 60 =>
                       /\ found.kind = "target"
                       /\ found.target.directMatch = (best >= 72)
                       /\ \E k \in 1..Len(probe.fetched) :
                              /\ FetchedScore(label, k) = best
                              /\ found.target.id = probe.fetched[k].id
                              /\ found.target.title = probe.fetched[k].title

\* C18 as claimed: the mapping has one entry for each input label, keyed by the label
\* as it was given.
C18_EntryPerInputLabel ==
    Found => DOMAIN probe.result = Range(probe.labels)

Extracted == probe.op = "extractPtnReference"

\* The positions of s where the whole word PTN, in any letter case, is followed by
\* white space and by a rest that is not blank.
MarkerStarts(s) ==
    {i \in 1..(Len(s) - 3) :
        /\ \E a \in {"P", "p"}, b \in {"T", "t"}, c \in {"N", "n"} : SubSeq(s, i, i + 2) = a \o b \o c
        /\ i > 1 => ~IsWordChar(CharAt(s, i - 1))
        /\ IsSpaceChar(CharAt(s, i + 3))
        /\ trim(SubSeq(s, i + 3, Len(s))) # ""}

\* C19 as claimed: both copies of extractPtnReference return no label for a value that
\* is no string and for a text without the whole-word marker PTN followed by white
\* space and a non-empty rest, and the trimmed rest of the text after the marker for
\* every text that has one.
C19_TrimmedRestAfterMarker ==
    Extracted =>
        \A label \in {probe.admin, probe.recipes} :
            IF probe.value = <<>> THEN label = <<>>
            ELSE LET s == probe.value[1]
                     marks == MarkerStarts(s)
                 IN  IF marks = {} THEN label = <<>>
                     ELSE label = <<trim(SubSeq(s, Highest({0 - i : i \in marks}) * (0 - 1) + 3, Len(s)))>>

(***************************************************************************)
(* Properties of the PATCH handler.                                        *)
(***************************************************************************)
TheRequest == request[Caller]

\* A parsed body with no usable seed id, with an audience that is neither public nor
\* enterprise, or with a value that is no boolean.
InvalidBody(body) ==
    \/ /\ body.id = <<>> \/ trim(body.id[1]) = ""
       /\ body.ids = <<>> \/ \A k \in 1..Len(body.ids[1]) :
                                 body.ids[1][k] = <<>> \/ trim(body.ids[1][k][1]) = ""
    \/ body.audience \notin {<<"public">>, <<"enterprise">>}
    \/ body.value \notin {<<TRUE>>, <<FALSE>>}

\* A request whose body was parsed and is invalid: null and the bodies that are no
\* object have no seed id.
InvalidRequest(r) ==
    \/ r.kind \in {"null", "scalar"}
    \/ r.kind = "json" /\ InvalidBody(r.body)

\* C20 as claimed: once its body is read, a request with no usable seed id, with an
\* invalid audience or with a value that is no boolean is answered with an error
\* response and setRecipesVisibility is never called for it: no query and no commit is
\* made and the store is as it was.
C20_InvalidRejectedBeforeStore ==
    TheRequest.pc \notin {"none", "reading"} /\ InvalidRequest(TheRequest) =>
        /\ TheRequest.pc = "responded"
        /\ TheRequest.status = 400
        /\ TheRequest.error # ""
        /\ TheCall = IdleCall
        /\ TheHist.fetches = 0
        /\ \A id \in DOMAIN store : TheHist.commits[id] = 0
        /\ TheHist.attempts = <<>>
        /\ store = TheHist.before

(***************************************************************************)
(* Properties of what one propagation request reports and touches.         *)
(***************************************************************************)
\* C21: on a successful return updatedIds is exactly the set of the recipes written
\* during the request, relatedIds is the whole expanded component of the seeds,
\* updatedIds is a subset of relatedIds and neither list holds an id twice.
C21_ReportedIds ==
    TheCall.pc = "returned" =>
        LET updatedIds == TheCall.result[1].updatedIds
            relatedIds == TheCall.result[1].relatedIds
        IN  /\ Range(updatedIds) = {id \in DOMAIN store : TheHist.commits[id] > 0}
            /\ Range(relatedIds) = SeedComponent(TheCall)
            /\ Range(updatedIds) \subseteq Range(relatedIds)
            /\ Cardinality(Range(updatedIds)) = Len(updatedIds)
            /\ Cardinality(Range(relatedIds)) = Len(relatedIds)

C21_Witness ==
    /\ TheCall.pc = "returned"
    /\ TheCall.seedIds = <<"a">>
    /\ Len(TheCall.result[1].updatedIds) = 5
    /\ Range(TheCall.result[1].relatedIds) = {"a", "b", "c", "d", "e"}
    /\ \A id \in {"a", "b", "c", "d", "e"} : TheHist.commits[id] = 1
    /\ TheHist.commits["f"] = 0

\* C29: a request writes only recipes of the expanded component of its seeds: in every
\* step, whether the request goes on to succeed or to fail, a recipe whose flags change
\* is in that component, no recipe is created or deleted, and no title and no
\* ingredient line changes.
C29_WritesOnlyComponent ==
    [][/\ \A id \in DOMAIN store :
              store'[id] # store[id] => id \in SeedComponent(TheCall)
       /\ DOMAIN store' = DOMAIN store
       /\ DOMAIN store' = rowIds(rows')
       /\ rows' = rows]_vars

\* The request seeded with a threw at its third member; f, outside the component, and
\* the members not reached are as they were.
C29_Witness ==
    /\ TheCall.pc = "thrown"
    /\ TheCall.seedIds = <<"a">>
    /\ TheCall.row = 3
    /\ store["f"] = TheHist.before["f"]
    /\ "f" \notin SeedComponent(TheCall)
    /\ \E id \in SeedComponent(TheCall) : store[id] # TheHist.before[id]

(***************************************************************************)
(* Properties of two concurrent propagation requests.                      *)
(***************************************************************************)
BothReturned == \A p \in Procs : call[p].pc = "returned"

\* The recipes both requests wrote.
SharedRecipes ==
    {id \in DOMAIN store : \A p \in Procs : id \in Range(call[p].result[1].updatedIds)}

\* C22 as claimed: when a request for public and a request for enterprise have both
\* returned, every recipe both have written holds the value of the first as its public
\* flag and the value of the second as its enterprise flag, however their steps
\* interleaved.
C22_AudiencesIndependent ==
    \A p \in Procs, q \in Procs :
        (BothReturned /\ call[p].audience = "public" /\ call[q].audience = "enterprise") =>
            \A id \in SharedRecipes :
                /\ store[id].public = <<call[p].value>>
                /\ store[id].enterprise = <<call[q].value>>

\* C23 as claimed: when two requests for the same audience with opposite values over
\* the same component have both returned, all members of the component hold the same
\* value for that audience, however their writes interleaved.
C23_ComponentUniform ==
    \A p \in Procs, q \in Procs :
        (/\ BothReturned
         /\ call[p].audience = call[q].audience
         /\ call[p].value # call[q].value
         /\ SeedComponent(call[p]) = SeedComponent(call[q])
         /\ Range(call[p].result[1].updatedIds) = SeedComponent(call[p])
         /\ Range(call[q].result[1].updatedIds) = SeedComponent(call[q])) =>
            \A x \in SeedComponent(call[p]), y \in SeedComponent(call[p]) :
                store[x][call[p].audience] = store[y][call[p].audience]

(***************************************************************************)
(* Properties of the token-overlap tier.                                   *)
(***************************************************************************)
\* The positions of s where a token starts, and the token that starts there.
TokenStarts(s) ==
    {i \in 1..Len(s) : SubSeq(s, i, i) # " " /\ (i = 1 \/ SubSeq(s, i - 1, i - 1) = " ")}
TokenAt(s, i) ==
    LET ends == {j \in i..Len(s) : j = Len(s) \/ SubSeq(s, j + 1, j + 1) = " "}
        last == CHOOSE j \in ends : \A k \in ends : j <= k
    IN  SubSeq(s, i, last)

\* The label tokens that match a title token, and the label tokens.
MatchedCount(l, t) ==
    Cardinality({i \in TokenStarts(l) :
        \E j \in TokenStarts(t) :
            \/ IsPrefixOf(TokenAt(l, i), TokenAt(t, j))
            \/ IsPrefixOf(TokenAt(t, j), TokenAt(l, i))})
TokenCount(l) == Cardinality(TokenStarts(l))

\* No earlier tier applies to the normalised label l and title t.
TokenTier(l, t) ==
    /\ l # "" /\ t # "" /\ l # t
    /\ ~IsPrefixOf(l, t) /\ ~IsPrefixOf(t, l) /\ ~IsPartOf(l, t)

TenTokens == "b c d e f g h i j k"

\* C24: when no earlier tier applies, with m matched label tokens of n, the score is
\* 78 when m/n >= 0.9, 72 when 0.75 <= m/n < 0.9, 68 when 0.6 <= m/n < 0.75 and 0
\* below 0.6; of ten label tokens, nine matched give 78, eight 72, seven and six 68,
\* five 0.
C24_TokenTierRatios ==
    (Scored /\ TokenTier(probe.labelNorm, probe.titleNorm)) =>
        LET m == MatchedCount(probe.labelNorm, probe.titleNorm)
            n == TokenCount(probe.labelNorm)
        IN  /\ 10 * m >= 9 * n => probe.score = 78
            /\ (4 * m >= 3 * n /\ 10 * m < 9 * n) => probe.score = 72
            /\ (5 * m >= 3 * n /\ 4 * m < 3 * n) => probe.score = 68
            /\ 5 * m < 3 * n => probe.score = 0
            /\ probe.label = TenTokens =>
                    /\ n = 10
                    /\ probe.title = "K J I H G F E D C" => m = 9 /\ probe.score = 78
                    /\ probe.title = "K J I H G F E D" => m = 8 /\ probe.score = 72
                    /\ probe.title = "K J I H G F E" => m = 7 /\ probe.score = 68
                    /\ probe.title = "K J I H G F" => m = 6 /\ probe.score = 68
                    /\ probe.title = "K J I H G" => m = 5 /\ probe.score = 0

C24_Witness ==
    /\ Scored
    /\ probe.label = TenTokens
    /\ probe.title = "K J I H G F E D C"
    /\ TokenTier(probe.labelNorm, probe.titleNorm)
    /\ MatchedCount(probe.labelNorm, probe.titleNorm) = 9
    /\ TokenCount(probe.labelNorm) = 10
    /\ probe.score = 78

(***************************************************************************)
(* Properties of the best match of a label.                                *)
(***************************************************************************)
Resolved == probe.op = "resolveLabelTargetId"

\* The first of the rows of docs whose title scores highest for the label.
Least(S) == CHOOSE x \in S : \A y \in S : x <= y
FirstBestRow(label, docs) == Least(BestRows(label, docs))
FirstFetchedBest(label) ==
    Least({k \in 1..Len(probe.fetched) : FetchedScore(label, k) = FetchedBest(label)})

\* C25: the graph builder resolves a label to the first, in corpus order, of the rows
\* whose title scores highest (to none when the highest score is below 72), and
\* navigation reports the first, in the order of the rows it fetched, of the rows whose
\* title scores highest (none when the highest score is below 60), read as the recipe
\* page reads it, subRecipeTargets[label].
C25_FirstSeenBest ==
    Resolved =>
        /\ probe.target =
               (IF rows = <<>> \/ BestScore(probe.label, rows) < 72 THEN <<>>
                ELSE <<rows[FirstBestRow(probe.label, rows)].id>>)
        /\ \A label \in Range(uniqueLabels(<<probe.label>>)) :
               LET found == subRecipeTargetOf(probe.navigation, probe.prototype, label)
               IN  IF FetchedBest(label) < 60 THEN found.kind \in {"null", "undefined"}
                   ELSE LET row == probe.fetched[FirstFetchedBest(label)]
                        IN  /\ found.kind = "target"
                            /\ found.target = [id |-> row.id, title |-> row.title,
                                               pluNumber |-> row.pluNumber,
                                               directMatch |-> FetchedBest(label) >= 72]

C25_Witness ==
    /\ Resolved
    /\ rows = CorpusTie
    /\ probe.label = "Jam"
    /\ BestRows("Jam", rows) = {2, 3}
    /\ BestScore("Jam", rows) = 110
    /\ probe.target = <<"y">>
    /\ probe.navigation["Jam"] = <<[id |-> "y", pluNumber |-> 25, title |-> "Jam (plum)", directMatch |-> TRUE]>>

(***************************************************************************)
(* Properties of the traversal, step by step.                              *)
(***************************************************************************)
Traversing == probe.op = "bfs"

\* C26: the traversal pushes each id at most once, and only as it is first marked
\* visited (the ids pushed are the visited ids, in the same order); the iterations done
\* and the ids still queued add up to the ids pushed, so on a corpus of n recipes the
\* loop has run at most n times when the queue is empty, cycles or not; and with the
\* queue empty the visited ids are what resolveRelatedRecipeIds returns.
C26_EachIdEnqueuedOnce ==
    Traversing =>
        /\ \A id \in Range(probe.pushed) : Occurrences(probe.pushed, id) = 1
        /\ probe.visited = probe.pushed
        /\ Range(probe.pushed) \subseteq rowIds(rows)
        /\ probe.steps + Len(probe.queue) = Len(probe.pushed)
        /\ probe.steps <= Len(rows)
        /\ probe.queue = <<>> =>
               /\ probe.visited = resolveRelatedRecipeIds(probe.seedIds, rows)
               /\ Range(probe.visited) =
                      Closure(probe.adjacency,
                              {trim(probe.seedIds[k]) : k \in 1..Len(probe.seedIds)}
                                  \cap rowIds(rows))

C26_Witness ==
    /\ Traversing
    /\ rows = CorpusCycle
    /\ probe.seedIds = <<"a">>
    /\ probe.adjacency["a"] = <<"b", "c">>
    /\ probe.adjacency["c"] = <<"b", "a">>
    /\ probe.queue = <<>>
    /\ probe.steps = 3
    /\ probe.pushed = <<"a", "b", "c">>

(***************************************************************************)
(* Properties of a recipe that names two others.                           *)
(***************************************************************************)
\* The id of the recipe a label of the row docs[k] is resolved to with a score of 72 or
\* more, when it is another recipe: <<>> or <<id>>.
NamedBy(label, docs, k) ==
    IF BestScore(label, docs) >= 72 /\ docs[FirstBestRow(label, docs)].id # docs[k].id
    THEN <<docs[FirstBestRow(label, docs)].id>>
    ELSE <<>>

\* C27: when two labels of one recipe are resolved to two different other recipes, the
\* graph holds both edges, and an expansion seeded with any of the three returns all
\* three: in the corpus where a names c and e (which name nothing), the seeds a, c and
\* e each give {a, c, e}.
C27_TwoLabelsMergeComponents ==
    GraphBuilt =>
        /\ \A k \in 1..Len(rows) : \A l1 \in LabelsOf(rows, k), l2 \in LabelsOf(rows, k) :
               LET t1 == NamedBy(l1, rows, k)
                   t2 == NamedBy(l2, rows, k)
                   three == {rows[k].id} \cup Range(t1) \cup Range(t2)
               IN  (t1 # <<>> /\ t2 # <<>> /\ t1 # t2) =>
                       /\ Range(t1) \cup Range(t2) \subseteq Range(probe.adjacency[rows[k].id])
                       /\ rows[k].id \in Range(probe.adjacency[t1[1]])
                       /\ rows[k].id \in Range(probe.adjacency[t2[1]])
                       /\ GivenSeeds \cap three # {} => three \subseteq Range(probe.result)
        /\ (rows = CorpusFork /\ probe.seedIds \in {<<"a">>, <<"c">>, <<"e">>}) =>
               Range(probe.result) = {"a", "c", "e"}

C27_Witness ==
    /\ Expanded
    /\ rows = CorpusFork
    /\ probe.seedIds = <<"e">>
    /\ LabelsOf(rows, 2) = {"Bun", "Relish"}
    /\ NamedBy("Bun", rows, 2) = <<"c">>
    /\ NamedBy("Relish", rows, 2) = <<"e">>
    /\ probe.adjacency["a"] = <<"c", "e">>
    /\ probe.adjacency["c"] = <<"a">>
    /\ probe.adjacency["e"] = <<"a">>
    /\ probe.result = <<"e", "a", "c">>

(***************************************************************************)
(* Properties of the two copies of the title matcher.                      *)
(***************************************************************************)
\* C28: the matcher of the recipes library normalises every label and title to the same
\* text and gives the same score as the matcher of the admin API; and over the same
\* corpus a label the graph builder resolves to a recipe (best score 72 or more) is
\* reported by navigation, read as the recipe page reads it, as a direct match to that
\* recipe.
C28_MatcherCopiesAgree ==
    /\ Scored =>
           /\ probe.recipesLabelNorm = probe.labelNorm
           /\ probe.recipesTitleNorm = probe.titleNorm
           /\ probe.recipesScore = probe.score
    /\ (Resolved /\ probe.target # <<>>) =>
           /\ uniqueLabels(<<probe.label>>) = <<trim(probe.label)>>
           /\ LET found == subRecipeTargetOf(probe.navigation, probe.prototype, trim(probe.label))
              IN  /\ found.kind = "target"
                  /\ found.target.id = probe.target[1]
                  /\ found.target.directMatch

C28_Witness ==
    /\ Resolved
    /\ rows = CorpusThreshold
    /\ probe.label = "red onion relish dip"
    /\ BestScore(probe.label, rows) = 72
    /\ probe.target = <<"q">>
    /\ probe.navigation["red onion relish dip"] =
           <<[id |-> "q", pluNumber |-> 17, title |-> "Red Onion Relish Jam", directMatch |-> TRUE]>>

(***************************************************************************)
(* Properties of the labels collected from a recipe's ingredient lines.    *)
(***************************************************************************)
Collected == probe.op = "collectPtnLabels"

\* The labels of the fields of the lines: none or one from each field.
FieldLabels(ingredients) ==
    UNION {Range(extractPtnReference(ingredients[k].item))
               \cup Range(extractPtnReference(ingredients[k].text)) : k \in 1..Len(ingredients)}

\* C30: the labels collected hold no label twice, they are the labels of the fields of
\* the lines, of which each field gives at most one, the lines in another order give
\* the same set of labels, and no line gives no label.
C30_LabelsAreASet ==
    Collected =>
        /\ \A label \in Range(probe.labels) : Occurrences(probe.labels, label) = 1
        /\ Range(probe.labels) = FieldLabels(probe.ingredients)
        /\ \A k \in 1..Len(probe.ingredients) :
               /\ Len(extractPtnReference(probe.ingredients[k].item)) <= 1
               /\ Len(extractPtnReference(probe.ingredients[k].text)) <= 1
        /\ Len(probe.labels) <= 2 * Len(probe.ingredients)
        /\ Range(probe.shuffledLabels) = Range(probe.labels)
        /\ Len(probe.shuffledLabels) = Len(probe.labels)
        /\ probe.ingredients = <<>> => probe.labels = <<>>

C30_Witness ==
    /\ Collected
    /\ probe.ingredients = <<Line(<<"PTN Jam">>, <<"1 PTN Jam">>), Line(<<"PTN Toast">>, <<"PTN Jam">>)>>
    /\ probe.shuffled = <<probe.ingredients[2], probe.ingredients[1]>>
    /\ probe.labels = <<"Jam", "Toast">>
    /\ probe.shuffledLabels = <<"Toast", "Jam">>

====
